---- MODULE Spec2Model ----
(***************************************************************************)
(* Verification model of the AI Beer Crawl bot: the group store served by  *)
(* the Flask blueprint src/src/routes/beer_crawl.py and the Celery tasks   *)
(* of src/src/tasks/celery_tasks.py that call it.                          *)
(*                                                                         *)
(* HTTP handlers run concurrently (threaded Flask server, one SQLAlchemy   *)
(* session per request, SQLite without row locks).  A handler that reads,  *)
(* decides and then writes is modelled by a read step that stores what the *)
(* handler saw and a commit step that writes from that snapshot.           *)
(***************************************************************************)
EXTENDS Integers, Sequences, FiniteSets, Bags, TLC

\* ------------------------------------------------------------------------
\* Bounds of the model
\* ------------------------------------------------------------------------
NUsers == 3
MaxGroups == 2
MaxChains == 1
MaxStarts == 2

\* Group size configuration (environment variables MIN_GROUP_SIZE and
\* MAX_GROUP_SIZE; the model runs the two-person test configuration).
MIN_GROUP_SIZE == 2
MAX_GROUP_SIZE == 2

\* Bar rows that a deployment may hold for the area (the Bar table is data).
BarCounts == {2, 3}

Users == 1..NUsers

FORMING == "forming"
ACTIVE == "active"
COMPLETED == "completed"
CANCELLED == "cancelled"
GroupStatus == {FORMING, ACTIVE, COMPLETED, CANCELLED}

NoGroup == 0

VARIABLES
    crawl_groups,     \* table crawl_groups: sequence of rows, id = index
    group_members,    \* table group_members: sequence of rows, id = index
    crawl_sessions,   \* table crawl_sessions: sequence of rows, id = index
    bars,             \* ids of the Bar rows in the table (columns: BarTable)
    requests,         \* bag of handler executions between read and commit
    tasks,            \* bag of queued Celery tasks
    cleanup,          \* daily_cleanup: position in the running sweep
    advances,         \* observer: successful next-bar calls per group
    sweeps            \* observer: the first two runs of daily_cleanup

groupVars == <<crawl_groups, group_members, crawl_sessions, bars, requests,
               tasks, cleanup, advances, sweeps>>

VARIABLES
    msg_dedupe,       \* redis db 1: msg_dedupe:<md5> keys, seconds to live
    user_cooldown,    \* redis db 1: user_cooldown:<number> keys, seconds to live
    msg_count,        \* redis db 1: msg_count:<number> keys, value and expiry
    workers,          \* executions of process_whatsapp_message
    passes,           \* observer: passed dedup checks per message key
    counted           \* observer: increments since the counter key appeared

dedupVars == <<msg_dedupe, user_cooldown, msg_count, workers, passes, counted>>

VARIABLES
    user_state,       \* redis db 3: user_state:<number> keys
    signup_tasks,     \* queued signup tasks, each with its arguments
    outbox,           \* responses handed to send_whatsapp_message: how many, and the last
    user_preferences, \* table user_preferences, by whatsapp number
    collected,        \* observer: values extracted during the current signup
    signup_clock      \* observer: seconds since start_signup_flow created the state

signupVars == <<user_state, signup_tasks, outbox, user_preferences, collected,
                signup_clock>>

groupRest == <<crawl_groups, group_members, crawl_sessions, bars, requests,
               cleanup, advances, sweeps>>

\* Outbound sending and task retries
VARIABLES
    channel,          \* the delivery channel the environment configures
    outgoing          \* the executions of retried tasks, by delivery

sendVars == <<channel, outgoing>>

\* Calls of functions and handlers that keep no state of their own
VARIABLES
    extraction,       \* a call of an extract_*_from_message and its result
    verification      \* the verify token configured and the last GET answered

callVars == <<extraction, verification>>

restVars == <<sendVars, callVars>>

vars == <<groupVars, dedupVars, signupVars, restVars>>

\* ------------------------------------------------------------------------
\* Helpers
\* ------------------------------------------------------------------------
Put(b, e) == b (+) SetToBag({e})
Take(b, e) == b (-) SetToBag({e})
Count(b, e) == CopiesIn(e, b)

Min(a, b) == IF a < b THEN a ELSE b

SetMin(S) == CHOOSE x \in S : \A y \in S : x <= y

RECURSIVE SetToSeq(_)
SetToSeq(S) == IF S = {} THEN <<>> ELSE <<SetMin(S)>> \o SetToSeq(S \ {SetMin(S)})

GroupIds == 1..Len(crawl_groups)

Task(n, a) == [name |-> n, arg |-> a]

Request(o, u, g, c) == [op |-> o, user |-> u, group |-> g, cm |-> c]

\* preferred_area of the UserPreferences row of a user
PreferredArea(u) == "a1"

MemberRows(g) == {i \in 1..Len(group_members) : group_members[i].group_id = g}

SessionIds(g) == {i \in 1..Len(crawl_sessions) : crawl_sessions[i].group_id = g}

\* Query.first(): the row with the lowest id among the matching rows, 0 if none
First(S) == IF S = {} THEN 0 ELSE SetMin(S)

\* ------------------------------------------------------------------------
\* POST /find-group
\* ------------------------------------------------------------------------
\* the first membership row of the user in an active group only
ExistingMembershipActiveOnly(u) ==
    First({i \in 1..Len(group_members) :
             /\ group_members[i].user_preferences_id = u
             /\ crawl_groups[group_members[i].group_id].status = ACTIVE})

\* existing_membership: first membership row of the user in a forming or
\* active group
ExistingMembership(u) ==
    First({i \in 1..Len(group_members) :
             /\ group_members[i].user_preferences_id = u
             /\ crawl_groups[group_members[i].group_id].status \in {FORMING, ACTIVE}})

\* the first forming group of the area, full or not
AvailableGroupAnyFill(u) ==
    First({g \in GroupIds :
             /\ crawl_groups[g].area = PreferredArea(u)
             /\ crawl_groups[g].status = FORMING})

\* available_group: first forming group of the area with a free place
AvailableGroup(u) ==
    First({g \in GroupIds :
             /\ crawl_groups[g].area = PreferredArea(u)
             /\ crawl_groups[g].status = FORMING
             /\ crawl_groups[g].current_members < crawl_groups[g].max_members})

\* find_group_task after a 200 answer: a full group asks for confirmation
\* (store_pending_confirmation is a plain function, so the .delay call raises
\* and the task ends); otherwise the task schedules its own re-check.
FindGroupFollowUp(tk, u, ready) ==
    IF ready THEN tk ELSE Put(tk, Task("find_group_task", u))

\* A user asks to join: start_signup_flow for a registered user, or
\* complete_user_registration, dispatches find_group_task.
RequestGroup(u) ==
    /\ Count(tasks, Task("find_group_task", u))
         + BagCardinality([r \in {x \in BagToSet(requests) :
                                    x.op = "find_group" /\ x.user = u}
                             |-> CopiesIn(r, requests)])
         < MaxChains
    /\ tasks' = Put(tasks, Task("find_group_task", u))
    /\ UNCHANGED <<crawl_groups, group_members, crawl_sessions, bars, requests,
                   cleanup, advances, sweeps>>
    /\ UNCHANGED <<dedupVars, signupVars, restVars>>

\* find_group_task calls the endpoint; the handler runs its queries.
FindGroupRead(u) ==
    /\ BagIn(Task("find_group_task", u), tasks)
    /\ LET tk == Take(tasks, Task("find_group_task", u))
           em == ExistingMembership(u)
       IN IF em # 0
          THEN LET g == crawl_groups[group_members[em].group_id]
               IN /\ tasks' = FindGroupFollowUp(tk, u, g.current_members >= g.max_members)
                  /\ requests' = requests
          ELSE /\ tasks' = tk
               /\ requests' = Put(requests,
                     Request("find_group", u, AvailableGroup(u),
                             IF AvailableGroup(u) = NoGroup THEN 0
                             ELSE crawl_groups[AvailableGroup(u)].current_members))
    /\ UNCHANGED <<crawl_groups, group_members, crawl_sessions, bars,
                   cleanup, advances, sweeps>>
    /\ UNCHANGED <<dedupVars, signupVars, restVars>>

\* the group row find_group writes on a join, activating a group it fills
JoinedActivates(row, cm) ==
    [row EXCEPT !.current_members = cm + 1,
                !.status = IF cm + 1 >= row.max_members THEN ACTIVE ELSE @]

\* the group row find_group writes on a join: one more member than it read
Joined(row, cm) == [row EXCEPT !.current_members = cm + 1]

\* The handler writes and commits; find_group_task handles the answer.
FindGroupCommit(r) ==
    /\ BagIn(r, requests)
    /\ r.op = "find_group"
    /\ requests' = Take(requests, r)
    /\ IF r.group # NoGroup
       THEN IF \E i \in MemberRows(r.group) : group_members[i].user_preferences_id = r.user
            THEN \* unique_group_member violated: rollback, answer 500
                 UNCHANGED <<crawl_groups, group_members, tasks>>
            ELSE /\ group_members' = Append(group_members,
                        [group_id |-> r.group, user_preferences_id |-> r.user,
                         is_admin |-> FALSE])
                 /\ crawl_groups' = [crawl_groups EXCEPT
                        ![r.group] = Joined(@, r.cm)]
                 /\ tasks' = FindGroupFollowUp(tasks, r.user,
                        r.cm + 1 >= crawl_groups[r.group].max_members)
       ELSE /\ Len(crawl_groups) < MaxGroups
            /\ crawl_groups' = Append(crawl_groups,
                   [area |-> PreferredArea(r.user), status |-> FORMING,
                    max_members |-> MAX_GROUP_SIZE, current_members |-> 1,
                    whatsapp_group_id |-> NoGroup])
            /\ group_members' = Append(group_members,
                   [group_id |-> Len(crawl_groups) + 1,
                    user_preferences_id |-> r.user, is_admin |-> TRUE])
            /\ tasks' = Put(tasks, Task("find_group_task", r.user))
    /\ UNCHANGED <<crawl_sessions, bars, cleanup, advances, sweeps>>
    /\ UNCHANGED <<dedupVars, signupVars, restVars>>

\* ------------------------------------------------------------------------
\* POST /groups/<id>/start
\* ------------------------------------------------------------------------
\* get_pending_confirmation: the stub answers group 1 for every user
get_pending_confirmation(u) == 1

\* The columns area and is_active of the Bar rows by id: bars 1 to 6 are
\* active bars of the area the users prefer, bar 7 is a closed bar of that
\* area and bar 8 an active bar of another area.
BarIds == 1..8
BarTable ==
    [b \in BarIds |-> [area |-> IF b = 8 THEN "a2" ELSE "a1", is_active |-> b # 7]]

\* the bars of an area whatever their is_active flag
BarsOfArea(area) == {b \in bars : BarTable[b].area = area}

\* Bar.query.filter_by(area=group.area, is_active=True).all()
ActiveBars(area) ==
    {b \in bars : BarTable[b].area = area /\ BarTable[b].is_active}

\* random.sample(bars, n): every ordered selection of n distinct bars
Samples(S, n) ==
    {q \in [1..n -> S] : \A i, j \in 1..n : i # j => q[i] # q[j]}

\* the CrawlSession rows start_group adds for one ordered selection
NewSessions(g, q) ==
    [i \in 1..Len(q) |->
        [group_id |-> g, bar_id |-> q[i], order_in_crawl |-> i,
         is_current |-> (i = 1)]]

\* the checks of start_group asking for two active bars only
StartAllowedTwoBars(g) ==
    /\ g \in GroupIds
    /\ crawl_groups[g].status = FORMING
    /\ crawl_groups[g].current_members >= MIN_GROUP_SIZE
    /\ Cardinality(ActiveBars(crawl_groups[g].area)) >= 2

\* The checks of start_group on what the handler reads
StartAllowed(g) ==
    /\ g \in GroupIds
    /\ crawl_groups[g].status = FORMING
    /\ crawl_groups[g].current_members >= MIN_GROUP_SIZE
    /\ Cardinality(ActiveBars(crawl_groups[g].area)) >= 3

\* confirm_group_participation ('yes' from a user) posts the start call; the
\* handler loads the group and the bars and passes its checks.  A call that
\* fails a check answers 4xx and writes nothing.
StartGroupRead(u) ==
    /\ StartAllowed(get_pending_confirmation(u))
    /\ ~BagIn(Request("start_group", u, get_pending_confirmation(u), 0), requests)
    /\ Cardinality({r \in BagToSet(requests) : r.op = "start_group"}) < MaxStarts
    /\ requests' = Put(requests,
                       Request("start_group", u, get_pending_confirmation(u), 0))
    /\ UNCHANGED <<crawl_groups, group_members, crawl_sessions, bars, tasks,
                   cleanup, advances, sweeps>>
    /\ UNCHANGED <<dedupVars, signupVars, restVars>>

\* The handler adds the sessions, sets the group active and commits; on the
\* 200 answer confirm_group_participation dispatches schedule_bar_progression.
StartGroupCommit(r) ==
    /\ BagIn(r, requests)
    /\ r.op = "start_group"
    /\ requests' = Take(requests, r)
    /\ LET found == ActiveBars(crawl_groups[r.group].area)
       IN \E q \in Samples(found, Min(5, Cardinality(found))) :
             crawl_sessions' = crawl_sessions \o NewSessions(r.group, q)
    /\ crawl_groups' = [crawl_groups EXCEPT ![r.group].status = ACTIVE]
    /\ tasks' = Put(tasks, Task("schedule_bar_progression", r.group))
    /\ UNCHANGED <<group_members, bars, cleanup, advances, sweeps>>
    /\ UNCHANGED <<dedupVars, signupVars, restVars>>

\* confirm_group_participation when start_group answers 400 (the group is
\* not forming, has too few members, or its area too few active bars): the
\* handler writes nothing and the task queues the apology to the user.
StartGroupRefused(u) ==
    /\ ~StartAllowed(get_pending_confirmation(u))
    /\ Count(tasks, Task("send_whatsapp_message", u)) < MaxStarts
    /\ tasks' = Put(tasks, Task("send_whatsapp_message", u))
    /\ UNCHANGED <<crawl_groups, group_members, crawl_sessions, bars, requests,
                   cleanup, advances, sweeps>>
    /\ UNCHANGED <<dedupVars, signupVars, restVars>>

\* send_whatsapp_message delivers a queued message
SendWhatsappMessage(u) ==
    /\ BagIn(Task("send_whatsapp_message", u), tasks)
    /\ tasks' = Take(tasks, Task("send_whatsapp_message", u))
    /\ UNCHANGED <<crawl_groups, group_members, crawl_sessions, bars, requests,
                   cleanup, advances, sweeps>>
    /\ UNCHANGED <<dedupVars, signupVars, restVars>>

\* schedule_bar_progression queues progress_to_next_bar with a countdown
ScheduleBarProgression(g) ==
    /\ BagIn(Task("schedule_bar_progression", g), tasks)
    /\ tasks' = Put(Take(tasks, Task("schedule_bar_progression", g)),
                    Task("progress_to_next_bar", g))
    /\ UNCHANGED <<crawl_groups, group_members, crawl_sessions, bars, requests,
                   cleanup, advances, sweeps>>
    /\ UNCHANGED <<dedupVars, signupVars, restVars>>

\* ------------------------------------------------------------------------
\* POST /groups/<id>/next-bar
\* ------------------------------------------------------------------------
CurrentSession(g) ==
    First({i \in SessionIds(g) : crawl_sessions[i].is_current})

NextSession(g, cur) ==
    First({i \in SessionIds(g) :
             crawl_sessions[i].order_in_crawl = crawl_sessions[cur].order_in_crawl + 1})

\* next_bar without its check of the group status
NextBarOkAnyStatus(g) ==
    /\ g \in GroupIds
    /\ CurrentSession(g) # 0

\* next_bar answers 200 when the group is active and has a current session
NextBarOk(g) ==
    /\ g \in GroupIds
    /\ crawl_groups[g].status = ACTIVE
    /\ CurrentSession(g) # 0

\* the tables after a successful next_bar, and whether the answer names a bar
NextBar(g) ==
    LET cur == CurrentSession(g)
        nxt == NextSession(g, cur)
    IN IF nxt # 0
       THEN [bar |-> TRUE,
             groups |-> crawl_groups,
             sessions |-> [crawl_sessions EXCEPT ![cur].is_current = FALSE,
                                                 ![nxt].is_current = TRUE]]
       ELSE [bar |-> FALSE,
             groups |-> [crawl_groups EXCEPT ![g].status = COMPLETED],
             sessions |-> [crawl_sessions EXCEPT ![cur].is_current = FALSE]]

\* A client posts next-bar (the endpoint is part of the HTTP API).
ApiNextBar(g) ==
    /\ NextBarOk(g)
    /\ crawl_groups' = NextBar(g).groups
    /\ crawl_sessions' = NextBar(g).sessions
    /\ advances' = [advances EXCEPT ![g] = @ + 1]
    /\ UNCHANGED <<group_members, bars, requests, tasks, cleanup, sweeps>>
    /\ UNCHANGED <<dedupVars, signupVars, restVars>>

\* progress_to_next_bar: post next-bar; with a next bar, announce it and queue
\* the follow-up only if the group row carries a whatsapp_group_id (the hour
\* decides between a further advance and the session end); without a next bar
\* queue end_group_session.  A refused call (not 200) ends the task.
ProgressToNextBar(g) ==
    /\ BagIn(Task("progress_to_next_bar", g), tasks)
    /\ LET tk == Take(tasks, Task("progress_to_next_bar", g))
       IN IF NextBarOk(g)
          THEN /\ crawl_groups' = NextBar(g).groups
               /\ crawl_sessions' = NextBar(g).sessions
               /\ advances' = [advances EXCEPT ![g] = @ + 1]
               /\ IF NextBar(g).bar
                  THEN IF crawl_groups[g].whatsapp_group_id # NoGroup
                       THEN \E before23 \in BOOLEAN :
                              tasks' = Put(tk, Task(IF before23
                                                    THEN "schedule_bar_progression"
                                                    ELSE "end_group_session", g))
                       ELSE tasks' = tk
                  ELSE tasks' = Put(tk, Task("end_group_session", g))
          ELSE /\ tasks' = tk
               /\ UNCHANGED <<crawl_groups, crawl_sessions, advances>>
    /\ UNCHANGED <<group_members, bars, requests, cleanup, sweeps>>
    /\ UNCHANGED <<dedupVars, signupVars, restVars>>

\* ------------------------------------------------------------------------
\* POST /groups/<id>/end
\* ------------------------------------------------------------------------
\* end_group: close the current session, set the group completed
EndGroup(g, groups, sessions) ==
    LET cur == First({i \in 1..Len(sessions) :
                        sessions[i].group_id = g /\ sessions[i].is_current})
    IN [groups |-> [groups EXCEPT ![g].status = COMPLETED],
        sessions |-> IF cur # 0
                     THEN [sessions EXCEPT ![cur].is_current = FALSE]
                     ELSE sessions]

\* end_group_session: farewell if the group row carries a whatsapp_group_id,
\* then post the end call
EndGroupSession(g) ==
    /\ BagIn(Task("end_group_session", g), tasks)
    /\ tasks' = Take(tasks, Task("end_group_session", g))
    /\ IF g \in GroupIds
       THEN /\ crawl_groups' = EndGroup(g, crawl_groups, crawl_sessions).groups
            /\ crawl_sessions' = EndGroup(g, crawl_groups, crawl_sessions).sessions
       ELSE UNCHANGED <<crawl_groups, crawl_sessions>>
    /\ UNCHANGED <<group_members, bars, requests, cleanup, advances, sweeps>>
    /\ UNCHANGED <<dedupVars, signupVars, restVars>>

\* ------------------------------------------------------------------------
\* daily_cleanup (beat schedule, 06:00)
\* ------------------------------------------------------------------------
\* GET /groups?status=active: get_groups answers the forming and the active
\* groups
GetGroupsActive == {g \in GroupIds : crawl_groups[g].status \in {FORMING, ACTIVE}}

Idle == [running |-> FALSE, todo |-> <<>>, active |-> {}]

\* daily_cleanup fetches the list of groups to end
DailyCleanupFetch ==
    /\ ~cleanup.running
    /\ LET act == {g \in GroupIds : crawl_groups[g].status = ACTIVE}
       IN /\ cleanup' = [running |-> TRUE, todo |-> SetToSeq(GetGroupsActive),
                         active |-> act]
          /\ sweeps' = [sweeps EXCEPT !.listed = IF sweeps.runs = 0 THEN act ELSE @]
    /\ UNCHANGED <<crawl_groups, group_members, crawl_sessions, bars, requests,
                   tasks, advances>>
    /\ UNCHANGED <<dedupVars, signupVars, restVars>>

\* one iteration of the loop of daily_cleanup: goodbye message if the group
\* carries a whatsapp_group_id, then the end call
DailyCleanupEnd ==
    /\ cleanup.running
    /\ cleanup.todo # <<>>
    /\ LET g == Head(cleanup.todo)
           bye == IF crawl_groups[g].whatsapp_group_id # NoGroup THEN 1 ELSE 0
       IN /\ crawl_groups' = EndGroup(g, crawl_groups, crawl_sessions).groups
          /\ crawl_sessions' = EndGroup(g, crawl_groups, crawl_sessions).sessions
          /\ cleanup' = [cleanup EXCEPT !.todo = Tail(@)]
          /\ sweeps' = [sweeps EXCEPT
                          !.ends[g] = IF sweeps.runs < 2 THEN @ + 1 ELSE @,
                          !.byes[g] = IF sweeps.runs < 2 THEN @ + bye ELSE @]
    /\ UNCHANGED <<group_members, bars, requests, tasks, advances>>
    /\ UNCHANGED <<dedupVars, signupVars, restVars>>

\* the loop is over and daily_cleanup returns
DailyCleanupReturn ==
    /\ cleanup.running
    /\ cleanup.todo = <<>>
    /\ cleanup' = Idle
    /\ sweeps' = [sweeps EXCEPT !.runs = Min(@ + 1, 2)]
    /\ UNCHANGED <<crawl_groups, group_members, crawl_sessions, bars, requests,
                   tasks, advances>>
    /\ UNCHANGED <<dedupVars, signupVars, restVars>>

\* A queued task is lost (worker crash, broker loss) or given up after its
\* retries
LoseTask(t) ==
    /\ BagIn(t, tasks)
    /\ tasks' = Take(tasks, t)
    /\ UNCHANGED <<crawl_groups, group_members, crawl_sessions, bars, requests,
                   cleanup, advances, sweeps>>
    /\ UNCHANGED <<dedupVars, signupVars, restVars>>

\* ------------------------------------------------------------------------
\* Texts
\* ------------------------------------------------------------------------
\* A text is the sequence of its characters.
UpperCase == <<"A", "B", "C", "D", "E", "F", "G", "H", "I", "J", "K", "L", "M",
               "N", "O", "P", "Q", "R", "S", "T", "U", "V", "W", "X", "Y", "Z">>
LowerCase == <<"a", "b", "c", "d", "e", "f", "g", "h", "i", "j", "k", "l", "m",
               "n", "o", "p", "q", "r", "s", "t", "u", "v", "w", "x", "y", "z">>

LowerChar(c) ==
    IF \E i \in 1..26 : UpperCase[i] = c
    THEN LowerCase[CHOOSE i \in 1..26 : UpperCase[i] = c]
    ELSE c

\* str.lower()
Lower(t) == [i \in 1..Len(t) |-> LowerChar(t[i])]

\* str.strip()
RECURSIVE StripLeft(_)
StripLeft(t) ==
    IF t # <<>> /\ Head(t) = " " THEN StripLeft(Tail(t)) ELSE t

RECURSIVE StripRight(_)
StripRight(t) ==
    IF t # <<>> /\ t[Len(t)] = " " THEN StripRight(SubSeq(t, 1, Len(t) - 1)) ELSE t

Strip(t) == StripRight(StripLeft(t))

\* the Python test  needle in text
Contains(text, needle) ==
    \E i \in 0..(Len(text) - Len(needle)) :
        SubSeq(text, i + 1, i + Len(needle)) = needle

\* ------------------------------------------------------------------------
\* Deduplication and rate limiting (redis db 1)
\* ------------------------------------------------------------------------
MESSAGE_COOLDOWN == 30
USER_COOLDOWN == 10
RATE_LIMIT_WINDOW == 300
RATE_LIMIT_MAX == 5

\* seconds by which the clock advances in one step
TimeStep == 10
\* seconds into a rate limit window during which time is followed step by
\* step; the rest of the window passes at once
Horizon == 60
\* the worker processes executing process_whatsapp_message
Workers == {1, 2}
\* messages a sender goes on sending once over the rate limit
MaxOver == 1

\* the whatsapp numbers messages come from: that of user 1
Senders == {1}
NoSender == 0
Types == {"text"}

\* message bodies as the webhook delivers them
Body_Join == <<"J", "o", "i", "n", " ">>
Body_hello == <<"h", "e", "l", "l", "o">>
DedupBodies == {Body_Join, Body_hello}

\* create_message_key: the digest is taken to be collision free, so the key
\* is the normalized triple itself
create_message_key(user_number, message_text, message_type) ==
    <<user_number, message_type, Lower(Strip(message_text))>>

MessageKeys ==
    {create_message_key(u, Lower(b), ty) : u \in Senders, b \in DedupBodies, ty \in Types}

NoKey == [n |-> 0, ttl |-> 0]
NoExpiry == 0 - 1

IdleWorker == [pc |-> "idle", from |-> NoSender, text |-> <<>>, type |-> "",
               count |-> 0, ord |-> 0, outcome |-> "", raised |-> ""]

WorkerKey(w) == create_message_key(workers[w].from, workers[w].text, workers[w].type)

Finished(w, o, res) ==
    [workers EXCEPT ![w] = [IdleWorker EXCEPT !.pc = "done", !.ord = o,
                                              !.outcome = res,
                                              !.raised = workers[w].raised]]

\* the rate limit check with the comparison off by one
RouteFromMax(message_count) ==
    IF message_count >= RATE_LIMIT_MAX THEN "rate_limited" ELSE "processed"

\* the rate limit check of process_whatsapp_message
Route(message_count) ==
    IF message_count > RATE_LIMIT_MAX THEN "rate_limited" ELSE "processed"

Free(w) == workers[w].pc \in {"idle", "done"}

\* The webhook hands a message to process_whatsapp_message, which the first
\* free worker executes; the body is lowercased first.
Receive(w, u, b, ty) ==
    /\ Free(w)
    /\ \A v \in Workers : v < w => ~Free(v)
    /\ msg_count[u].n < RATE_LIMIT_MAX + MaxOver
    /\ workers' = [workers EXCEPT ![w] =
                     [IdleWorker EXCEPT !.pc = "exists_message", !.from = u,
                                        !.text = Lower(b), !.type = ty]]
    /\ UNCHANGED <<msg_dedupe, user_cooldown, msg_count, passes, counted>>
    /\ UNCHANGED <<groupVars, signupVars, restVars>>

\* is_duplicate_message renewing the record of a message it denies
ExistsMessageKeyRenewing(w) ==
    /\ workers[w].pc = "exists_message"
    /\ workers' = IF msg_dedupe[WorkerKey(w)] > 0
                  THEN Finished(w, 0, "ignored")
                  ELSE [workers EXCEPT ![w].pc = "exists_cooldown"]
    /\ msg_dedupe' = IF msg_dedupe[WorkerKey(w)] > 0
                     THEN [msg_dedupe EXCEPT ![WorkerKey(w)] = MESSAGE_COOLDOWN]
                     ELSE msg_dedupe
    /\ UNCHANGED <<user_cooldown, msg_count, passes, counted>>
    /\ UNCHANGED <<groupVars, signupVars, restVars>>

\* is_duplicate_message: redis_client.exists(message_key)
ExistsMessageKey(w) ==
    /\ workers[w].pc = "exists_message"
    /\ workers' = IF msg_dedupe[WorkerKey(w)] > 0
                  THEN Finished(w, 0, "ignored")
                  ELSE [workers EXCEPT ![w].pc = "exists_cooldown"]
    /\ UNCHANGED <<msg_dedupe, user_cooldown, msg_count, passes, counted>>
    /\ UNCHANGED <<groupVars, signupVars, restVars>>

\* is_duplicate_message going on without a look at the cooldown marker
ExistsCooldownKeySkipped(w) ==
    /\ workers[w].pc = "exists_cooldown"
    /\ workers' = [workers EXCEPT ![w].pc = "setex_message"]
    /\ UNCHANGED <<msg_dedupe, user_cooldown, msg_count, passes, counted>>
    /\ UNCHANGED <<groupVars, signupVars, restVars>>

\* is_duplicate_message: redis_client.exists(user_cooldown_key)
ExistsCooldownKey(w) ==
    /\ workers[w].pc = "exists_cooldown"
    /\ workers' = IF user_cooldown[workers[w].from] > 0
                  THEN Finished(w, 0, "ignored")
                  ELSE [workers EXCEPT ![w].pc = "setex_message"]
    /\ UNCHANGED <<msg_dedupe, user_cooldown, msg_count, passes, counted>>
    /\ UNCHANGED <<groupVars, signupVars, restVars>>

\* is_duplicate_message: redis_client.setex(message_key, cooldown_seconds, "1");
\* from here on the message is allowed
SetexMessageKey(w) ==
    /\ workers[w].pc = "setex_message"
    /\ msg_dedupe' = [msg_dedupe EXCEPT ![WorkerKey(w)] = MESSAGE_COOLDOWN]
    /\ passes' = [passes EXCEPT ![WorkerKey(w)] =
                    IF @.left > 0 THEN [@ EXCEPT !.n = @ + 1]
                    ELSE [n |-> 1, left |-> MESSAGE_COOLDOWN]]
    /\ workers' = [workers EXCEPT ![w].pc = "setex_cooldown"]
    /\ UNCHANGED <<user_cooldown, msg_count, counted>>
    /\ UNCHANGED <<groupVars, signupVars, restVars>>

\* is_duplicate_message: redis_client.setex(user_cooldown_key, USER_COOLDOWN, "1")
SetexCooldownKey(w) ==
    /\ workers[w].pc = "setex_cooldown"
    /\ user_cooldown' = [user_cooldown EXCEPT ![workers[w].from] = USER_COOLDOWN]
    /\ workers' = [workers EXCEPT ![w].pc = "incr"]
    /\ UNCHANGED <<msg_dedupe, msg_count, passes, counted>>
    /\ UNCHANGED <<groupVars, signupVars, restVars>>

\* increment_user_message_count: redis_client.incr(count_key); a count other
\* than 1 goes on to the rate limit check
IncrCount(w) ==
    /\ workers[w].pc = "incr"
    /\ LET u == workers[w].from
           c == msg_count[u].n + 1
       IN /\ msg_count' = [msg_count EXCEPT ![u] =
                             IF @.n = 0 THEN [n |-> 1, ttl |-> NoExpiry]
                             ELSE [@ EXCEPT !.n = c]]
          /\ counted' = [counted EXCEPT ![u] = @ + 1]
          /\ workers' = IF c = 1
                        THEN [workers EXCEPT ![w].pc = "expire", ![w].count = c,
                                             ![w].ord = counted[u] + 1]
                        ELSE Finished(w, counted[u] + 1, Route(c))
    /\ UNCHANGED <<msg_dedupe, user_cooldown, passes>>
    /\ UNCHANGED <<groupVars, signupVars, restVars>>

\* increment_user_message_count: redis_client.expire(count_key, window_seconds)
\* on the first increment, then the rate limit check
ExpireCount(w) ==
    /\ workers[w].pc = "expire"
    /\ LET u == workers[w].from
       IN msg_count' = [msg_count EXCEPT ![u] =
                          IF @.n > 0 THEN [@ EXCEPT !.ttl = RATE_LIMIT_WINDOW] ELSE @]
    /\ workers' = Finished(w, workers[w].ord, Route(workers[w].count))
    /\ UNCHANGED <<msg_dedupe, user_cooldown, passes, counted>>
    /\ UNCHANGED <<groupVars, signupVars, restVars>>

\* the steps of is_duplicate_message, each one access to redis
DedupSteps == {"exists_message", "exists_cooldown", "setex_message", "setex_cooldown"}

\* is_duplicate_message: redis raises at one of its accesses; the except
\* branch returns False and the message goes on to be counted
DedupRaises(w) ==
    /\ workers[w].pc \in DedupSteps
    /\ workers' = [workers EXCEPT ![w].pc = "incr", ![w].raised = "dedup"]
    /\ UNCHANGED <<msg_dedupe, user_cooldown, msg_count, passes, counted>>
    /\ UNCHANGED <<groupVars, signupVars, restVars>>

\* the count taken to be 1 over the limit when redis raises
CountOnErrorOverMax == RATE_LIMIT_MAX + 1

\* increment_user_message_count: the count returned by the except branch
CountOnError == 1

\* increment_user_message_count: redis raises at incr or at expire; the
\* except branch returns CountOnError, then the rate limit check
CounterRaises(w) ==
    /\ workers[w].pc \in {"incr", "expire"}
    /\ workers' = [Finished(w, workers[w].ord, Route(CountOnError))
                     EXCEPT ![w].raised = "counter"]
    /\ UNCHANGED <<msg_dedupe, user_cooldown, msg_count, passes, counted>>
    /\ UNCHANGED <<groupVars, signupVars, restVars>>

\* seconds to live after d seconds; a key whose time is up is gone
Aged(ttl, d) == IF ttl > d THEN ttl - d ELSE 0

\* d seconds pass: redis expires the keys whose time is up
Elapse(d) ==
    /\ msg_dedupe' = [k \in MessageKeys |-> Aged(msg_dedupe[k], d)]
    /\ user_cooldown' = [u \in Senders |-> Aged(user_cooldown[u], d)]
    /\ msg_count' = [u \in Senders |->
                       IF msg_count[u].ttl = NoExpiry \/ msg_count[u].n = 0
                       THEN msg_count[u]
                       ELSE IF msg_count[u].ttl > d
                            THEN [msg_count[u] EXCEPT !.ttl = @ - d]
                            ELSE NoKey]
    /\ counted' = [u \in Senders |->
                     IF msg_count'[u].n = 0 THEN 0 ELSE counted[u]]
    /\ passes' = [k \in MessageKeys |->
                    IF passes[k].left > d
                    THEN [passes[k] EXCEPT !.left = @ - d]
                    ELSE [n |-> 0, left |-> 0]]
    /\ UNCHANGED workers
    /\ UNCHANGED <<groupVars, signupVars, restVars>>

\* the clock ticks while every rate limit window is young
Advance ==
    /\ \A u \in Senders :
          \/ msg_count[u].n = 0
          \/ msg_count[u].ttl = NoExpiry
          \/ msg_count[u].ttl > RATE_LIMIT_WINDOW - Horizon
    /\ Elapse(TimeStep)

\* a quiet period as long as the rate limit window
AdvanceWindow == Elapse(RATE_LIMIT_WINDOW)

DedupInit ==
    /\ msg_dedupe = [k \in MessageKeys |-> 0]
    /\ user_cooldown = [u \in Senders |-> 0]
    /\ msg_count = [u \in Senders |-> NoKey]
    /\ workers = [w \in Workers |-> IdleWorker]
    /\ passes = [k \in MessageKeys |-> [n |-> 0, left |-> 0]]
    /\ counted = [u \in Senders |-> 0]

NextDedup ==
    \/ \E w \in Workers, u \in Senders, b \in DedupBodies, ty \in Types :
          Receive(w, u, b, ty)
    \/ \E w \in Workers : ExistsMessageKey(w)
    \/ \E w \in Workers : ExistsCooldownKey(w)
    \/ \E w \in Workers : SetexMessageKey(w)
    \/ \E w \in Workers : SetexCooldownKey(w)
    \/ \E w \in Workers : IncrCount(w)
    \/ \E w \in Workers : ExpireCount(w)
    \/ Advance
    \/ AdvanceWindow

\* scan_iter(match="msg_dedupe:*<number>*"): whether the name of a record
\* matches. The name is "msg_dedupe:" and the md5 digest of the normalized
\* triple; the number went into the digest and is no part of the name.
NameHoldsNumber(k, user_number) == FALSE

\* clear_user_deduplication: the records found by the scan, the cooldown
\* marker and the message counter of the number are deleted
clear_user_deduplication(user_number) ==
    /\ msg_dedupe' = [k \in MessageKeys |->
                        IF msg_dedupe[k] > 0 /\ NameHoldsNumber(k, user_number)
                        THEN 0 ELSE msg_dedupe[k]]
    /\ user_cooldown' = [user_cooldown EXCEPT ![user_number] = 0]
    /\ msg_count' = [msg_count EXCEPT ![user_number] = NoKey]
    /\ UNCHANGED <<workers, passes, counted>>
    /\ UNCHANGED <<groupVars, signupVars, restVars>>

\* messages processed while the deduplication data of senders is cleared,
\* with no time passing
NextClear ==
    \/ \E w \in Workers, u \in Senders, b \in DedupBodies, ty \in Types :
          Receive(w, u, b, ty)
    \/ \E w \in Workers : ExistsMessageKey(w)
    \/ \E w \in Workers : ExistsCooldownKey(w)
    \/ \E w \in Workers : SetexMessageKey(w)
    \/ \E w \in Workers : SetexCooldownKey(w)
    \/ \E w \in Workers : IncrCount(w)
    \/ \E w \in Workers : ExpireCount(w)
    \/ \E u \in Senders : clear_user_deduplication(u)

\* the worker followed while redis may raise
OutageWorkers == {1}

\* message processing with a redis that may raise at any access
NextOutage ==
    \/ \E w \in OutageWorkers, u \in Senders, b \in DedupBodies, ty \in Types :
          Receive(w, u, b, ty)
    \/ \E w \in OutageWorkers : ExistsMessageKey(w)
    \/ \E w \in OutageWorkers : ExistsCooldownKey(w)
    \/ \E w \in OutageWorkers : SetexMessageKey(w)
    \/ \E w \in OutageWorkers : SetexCooldownKey(w)
    \/ \E w \in OutageWorkers : IncrCount(w)
    \/ \E w \in OutageWorkers : ExpireCount(w)
    \/ \E w \in OutageWorkers : DedupRaises(w)
    \/ \E w \in OutageWorkers : CounterRaises(w)
    \/ Advance
    \/ AdvanceWindow

\* ------------------------------------------------------------------------
\* Conversation state (redis db 3) and the signup flow
\* ------------------------------------------------------------------------
COLLECTING_AREA == "collecting_area"
COLLECTING_GROUP_TYPE == "collecting_group_type"
COLLECTING_GENDER == "collecting_gender"
COLLECTING_AGE == "collecting_age"
\* STATES['COMPLETED']
STATE_COMPLETED == "completed"
NoStage == "none"

AREAS == <<<<"n", "o", "r", "t", "h", "e", "r", "n", " ", "q", "u", "a", "r", "t", "e", "r">>,
         <<"c", "i", "t", "y", " ", "c", "e", "n", "t", "r", "e">>,
         <<"d", "e", "a", "n", "s", "g", "a", "t", "e">>,
         <<"a", "n", "c", "o", "a", "t", "s">>,
         <<"s", "p", "i", "n", "n", "i", "n", "g", "f", "i", "e", "l", "d", "s">>>>
GROUP_TYPES == <<<<"m", "i", "x", "e", "d">>,
               <<"m", "a", "l", "e", "s", " ", "o", "n", "l", "y">>,
               <<"f", "e", "m", "a", "l", "e", "s", " ", "o", "n", "l", "y">>>>
AGE_RANGES == <<<<"1", "8", "-", "2", "5">>,
              <<"2", "6", "-", "3", "5">>,
              <<"3", "6", "-", "4", "5">>,
              <<"4", "6", "+">>>>
GENDER_OPTIONS == <<<<"m", "a", "l", "e">>,
                  <<"f", "e", "m", "a", "l", "e">>,
                  <<"p", "r", "e", "f", "e", "r", " ", "n", "o", "t", " ", "t", "o", " ", "s", "a", "y">>>>

state_timeout == 1800

\* seconds by which the clock advances in one step of a conversation
SignupStep == 900
\* responses and queued tasks a conversation is followed for
MaxSent == 5
\* signup tasks queued at one time
MaxPending == 2

\* texts of the messages of a conversation
Text_join == <<"j", "o", "i", "n">>
Text_ancoats == <<"A", "n", "c", "o", "a", "t", "s">>
Text_mixed == <<"m", "i", "x", "e", "d">>
Text_female == <<"f", "e", "m", "a", "l", "e">>
Text_age == <<"2", "6", "-", "3", "5">>
SignupTexts == {Text_join, Text_ancoats, Text_mixed, Text_female, Text_age}

\* None, and the empty dict
NoValue == <<>>

\* the first option, in list order, that the message contains
RECURSIVE Extract(_, _)
Extract(options, message) ==
    IF options = <<>> THEN NoValue
    ELSE IF Contains(message, Head(options)) THEN Head(options)
    ELSE Extract(Tail(options), message)

extract_area_from_message(message) == Extract(AREAS, Lower(message))
extract_group_type_from_message(message) == Extract(GROUP_TYPES, Lower(message))
extract_gender_from_message(message) == Extract(GENDER_OPTIONS, Lower(message))
extract_age_range_from_message(message) == Extract(AGE_RANGES, message)

\* what handle_signup_flow does with a message in each collecting stage
ExtractFor(stage, message) ==
    CASE stage = COLLECTING_AREA -> extract_area_from_message(message)
      [] stage = COLLECTING_GROUP_TYPE -> extract_group_type_from_message(message)
      [] stage = COLLECTING_GENDER -> extract_gender_from_message(message)
      [] stage = COLLECTING_AGE -> extract_age_range_from_message(message)
      [] OTHER -> NoValue

DataKey(stage) ==
    CASE stage = COLLECTING_AREA -> "preferred_area"
      [] stage = COLLECTING_GROUP_TYPE -> "preferred_group_type"
      [] stage = COLLECTING_GENDER -> "gender"
      [] stage = COLLECTING_AGE -> "age_range"

NextStage(stage) ==
    CASE stage = COLLECTING_AREA -> COLLECTING_GROUP_TYPE
      [] stage = COLLECTING_GROUP_TYPE -> COLLECTING_GENDER
      [] stage = COLLECTING_GENDER -> COLLECTING_AGE
      [] stage = COLLECTING_AGE -> STATE_COMPLETED

\* the response sent on entering a stage
EntryResponse(stage) ==
    CASE stage = COLLECTING_AREA -> "signup_start"
      [] stage = COLLECTING_GROUP_TYPE -> "signup_group_type"
      [] stage = COLLECTING_GENDER -> "signup_gender"
      [] stage = COLLECTING_AGE -> "signup_age"

\* the entry response sent again in place of the invalid-input response
InvalidResponseAsEntry(stage) == EntryResponse(stage)

\* the response handle_signup_flow sends when no option is extracted
InvalidResponse(stage) ==
    CASE stage = COLLECTING_AREA -> "signup_area_invalid"
      [] stage = COLLECTING_GROUP_TYPE -> "signup_group_type_invalid"
      [] stage = COLLECTING_GENDER -> "signup_gender_invalid"
      [] stage = COLLECTING_AGE -> "signup_age_invalid"

CollectingStages ==
    {COLLECTING_AREA, COLLECTING_GROUP_TYPE, COLLECTING_GENDER, COLLECTING_AGE}

\* a user_state key: the stage, the data dict, the seconds since created_at
\* and the seconds the key has to live
NoState == [state |-> NoStage, data |-> NoValue, age |-> 0, ttl |-> 0]
NoSnapshot == [state |-> NoStage, data |-> NoValue]
NoRow == [preferred_area |-> NoValue, preferred_group_type |-> NoValue,
          gender |-> NoValue, age_range |-> NoValue]

\* dict.get(key) and dict.get(key, default)
Get(data, key, default) == IF key \in DOMAIN data THEN data[key] ELSE default

\* get_user_state: the stored state, None when absent or older than
\* state_timeout
get_user_state(u) ==
    IF user_state[u].ttl = 0 \/ user_state[u].age > state_timeout
    THEN NoState ELSE user_state[u]

\* the store after get_user_state, which deletes a state it finds expired
AfterGet(u) == [user_state EXCEPT ![u] = get_user_state(u)]

\* set_user_state
set_user_state(store, u, stage, data) ==
    [store EXCEPT ![u] = [state |-> stage, data |-> data, age |-> 0,
                          ttl |-> state_timeout]]

\* update_user_data
update_user_data(u, key, value) ==
    IF get_user_state(u) = NoState THEN AfterGet(u)
    ELSE [user_state EXCEPT ![u].data =
             [k \in (DOMAIN @) \cup {key} |-> IF k = key THEN value ELSE @[k]],
                            ![u].ttl = state_timeout]

\* clear_user_state
clear_user_state(store, u) == [store EXCEPT ![u] = NoState]

\* get_signup_completion_data: the data dict of a completed state, else None
HasCompletionData(u) == get_user_state(u).state = STATE_COMPLETED
get_signup_completion_data(u) == get_user_state(u).data

\* the profile complete_user_registration posts
UserData(signup_data) ==
    [preferred_area |-> Get(signup_data, "preferred_area", NoValue),
     preferred_group_type |-> Get(signup_data, "preferred_group_type", Text_mixed),
     gender |-> Get(signup_data, "gender", NoValue),
     age_range |-> Get(signup_data, "age_range", NoValue)]

SignupTask(n, pc, u, text, snap) ==
    [name |-> n, pc |-> pc, user |-> u, text |-> text, snap |-> snap]

NoResponse == [count |-> 0, to |-> NoSender, key |-> ""]

Send(u, response_key) ==
    [count |-> outbox.count + 1, to |-> u, key |-> response_key]

\* responses sent and tasks queued so far
Load == outbox.count + BagCardinality(signup_tasks) + BagCardinality(tasks)

\* GET /api/user/<whatsapp_number>
UserLookup(u) == user_preferences[u] # NoRow

\* the observer's mark for a conversation whose state has expired
Lapsed == 0 - 1

\* the observer's mark for a state in force past its time
Overdue == state_timeout + 1

\* the observer after get_user_state, which may find the state expired
ClockAfterGet(u) ==
    IF user_state[u] # NoState /\ get_user_state(u) = NoState
    THEN [signup_clock EXCEPT ![u] = Lapsed] ELSE signup_clock

\* the keywords that start a signup
StartKeywords == {<<"b", "e", "e", "r">>, <<"c", "r", "a", "w", "l">>, <<"j", "o", "i", "n">>, <<"s", "i", "g", "n", " ", "u", "p">>, <<"s", "i", "g", "n", "u", "p">>}

\* a message taken for a confirmation only when it is the word itself
WantsConfirmExactly(message_text) == message_text = <<"y", "e", "s">>

\* 'yes' in message_text
WantsConfirm(message_text) == Contains(message_text, <<"y", "e", "s">>)

\* "don't like this group" in message_text or "find another" in message_text
WantsAlternative(message_text) ==
    \/ Contains(message_text, <<"d", "o", "n", "'", "t", " ", "l", "i", "k", "e", " ", "t", "h", "i", "s", " ", "g", "r", "o", "u", "p">>)
    \/ Contains(message_text, <<"f", "i", "n", "d", " ", "a", "n", "o", "t", "h", "e", "r">>)

\* process_whatsapp_message, once the message is allowed: the routing of a
\* text message
RouteMessage(u, body) ==
    /\ Load < MaxSent
    /\ BagCardinality(signup_tasks) < MaxPending
    /\ LET message_text == Lower(body)
           state == get_user_state(u)
       IN /\ user_state' = AfterGet(u)
          /\ IF state # NoState
             THEN /\ signup_tasks' = Put(signup_tasks,
                         SignupTask("handle_signup_flow", "run", u, message_text,
                                    [state |-> state.state, data |-> state.data]))
                  /\ UNCHANGED <<outbox, tasks>>
             ELSE IF \E keyword \in StartKeywords : Contains(message_text, keyword)
             THEN /\ signup_tasks' = Put(signup_tasks,
                         SignupTask("start_signup_flow", "run", u, NoValue, NoSnapshot))
                  /\ UNCHANGED <<outbox, tasks>>
             ELSE IF WantsConfirm(message_text)
             THEN /\ tasks' = Put(tasks, Task("confirm_group_participation", u))
                  /\ UNCHANGED <<outbox, signup_tasks>>
             ELSE IF WantsAlternative(message_text)
             THEN /\ tasks' = Put(tasks, Task("find_alternative_group", u))
                  /\ UNCHANGED <<outbox, signup_tasks>>
             ELSE IF Contains(message_text, <<"h", "e", "l", "p">>)
             THEN /\ outbox' = Send(u, "help")
                  /\ UNCHANGED <<signup_tasks, tasks>>
             ELSE /\ outbox' = Send(u, "welcome")
                  /\ UNCHANGED <<signup_tasks, tasks>>
    /\ signup_clock' = ClockAfterGet(u)
    /\ UNCHANGED <<user_preferences, collected>>
    /\ UNCHANGED <<groupRest, dedupVars, restVars>>

\* start_signup_flow
StartSignupFlow(u) ==
    /\ BagIn(SignupTask("start_signup_flow", "run", u, NoValue, NoSnapshot), signup_tasks)
    /\ signup_tasks' = Take(signup_tasks,
                            SignupTask("start_signup_flow", "run", u, NoValue, NoSnapshot))
    /\ IF UserLookup(u)
       THEN /\ tasks' = Put(tasks, Task("find_group_task", u))
            /\ UNCHANGED <<user_state, outbox, collected, signup_clock>>
       ELSE /\ user_state' = set_user_state(user_state, u, COLLECTING_AREA, NoValue)
            /\ outbox' = Send(u, "signup_start")
            /\ collected' = [collected EXCEPT ![u] = NoRow]
            /\ signup_clock' = [signup_clock EXCEPT ![u] = 0]
            /\ UNCHANGED tasks
    /\ UNCHANGED user_preferences
    /\ UNCHANGED <<groupRest, dedupVars, restVars>>

\* handle_signup_flow up to and including update_user_data: the stage is that
\* of the snapshot the task carries
HandleSignupFlow(u, message_text, stage) ==
    \E t \in BagToSet(signup_tasks) :
        /\ t.name = "handle_signup_flow" /\ t.pc = "run"
        /\ t.user = u /\ t.text = message_text /\ t.snap.state = stage
        /\ LET value == ExtractFor(stage, message_text)
           IN IF stage \in CollectingStages /\ value # NoValue
              THEN /\ user_state' = update_user_data(u, DataKey(stage), value)
                   /\ collected' = [collected EXCEPT ![u][DataKey(stage)] = value]
                   /\ signup_clock' = ClockAfterGet(u)
                   /\ signup_tasks' = Put(Take(signup_tasks, t),
                                          [t EXCEPT !.pc = "set_user_state"])
                   /\ UNCHANGED outbox
              ELSE /\ outbox' = IF stage \in CollectingStages
                                THEN Send(u, InvalidResponse(stage))
                                ELSE outbox
                   /\ signup_tasks' = Take(signup_tasks, t)
                   /\ UNCHANGED <<user_state, collected, signup_clock>>
        /\ UNCHANGED <<tasks, user_preferences>>
        /\ UNCHANGED <<groupRest, dedupVars, restVars>>

\* handle_signup_flow from set_user_state on: the data written is that of
\* the snapshot
HandleSetUserState(u, stage) ==
    \E t \in BagToSet(signup_tasks) :
        /\ t.name = "handle_signup_flow" /\ t.pc = "set_user_state"
        /\ t.user = u /\ t.snap.state = stage
        /\ user_state' = set_user_state(user_state, u, NextStage(stage), t.snap.data)
        /\ IF stage = COLLECTING_AGE
           THEN /\ signup_tasks' = Put(Take(signup_tasks, t),
                       SignupTask("complete_user_registration", "run", u, NoValue, NoSnapshot))
                /\ UNCHANGED outbox
           ELSE /\ signup_tasks' = Take(signup_tasks, t)
                /\ outbox' = Send(u, EntryResponse(NextStage(stage)))
        /\ UNCHANGED <<tasks, user_preferences, collected, signup_clock>>
        /\ UNCHANGED <<groupRest, dedupVars, restVars>>

\* A handle_signup_flow message that was not acknowledged is delivered again.
Redeliver(u, message_text, stage) ==
    \E t \in BagToSet(signup_tasks) :
        /\ t.name = "handle_signup_flow" /\ t.pc = "run"
        /\ t.user = u /\ t.text = message_text /\ t.snap.state = stage
        /\ Count(signup_tasks, t) < 2
        /\ Load < MaxSent
        /\ BagCardinality(signup_tasks) < MaxPending
        /\ signup_tasks' = Put(signup_tasks, t)
        /\ UNCHANGED <<user_state, outbox, tasks, user_preferences, collected,
                       signup_clock>>
        /\ UNCHANGED <<groupRest, dedupVars, restVars>>

\* complete_user_registration with POST /api/beer-crawl/signup
CompleteUserRegistration(u) ==
    /\ BagIn(SignupTask("complete_user_registration", "run", u, NoValue, NoSnapshot),
             signup_tasks)
    /\ signup_tasks' = Take(signup_tasks,
           SignupTask("complete_user_registration", "run", u, NoValue, NoSnapshot))
    /\ LET signup_data == get_signup_completion_data(u)
       IN IF ~HasCompletionData(u) \/ signup_data = NoValue
          THEN /\ outbox' = Send(u, "signup_timeout")
               /\ user_state' = AfterGet(u)
               /\ UNCHANGED <<tasks, user_preferences>>
          ELSE IF UserLookup(u)
          THEN /\ user_state' = clear_user_state(user_state, u)
               /\ tasks' = Put(tasks, Task("find_group_task", u))
               /\ UNCHANGED <<outbox, user_preferences>>
          ELSE IF UserData(signup_data).preferred_area = NoValue
          THEN /\ outbox' = Send(u, "error")
               /\ user_state' = clear_user_state(user_state, u)
               /\ UNCHANGED <<tasks, user_preferences>>
          ELSE /\ user_preferences' = [user_preferences EXCEPT ![u] = UserData(signup_data)]
               /\ outbox' = Send(u, "signup_success")
               /\ user_state' = clear_user_state(user_state, u)
               /\ tasks' = Put(tasks, Task("find_group_task", u))
    /\ signup_clock' = IF get_user_state(u) # NoState /\ user_state'[u] = NoState
                       THEN [signup_clock EXCEPT ![u] = 0] ELSE ClockAfterGet(u)
    /\ UNCHANGED collected
    /\ UNCHANGED <<groupRest, dedupVars, restVars>>

\* SignupStep seconds pass; redis drops a state whose time to live is up
SignupTick ==
    /\ \E u \in Senders : user_state[u] # NoState
    /\ user_state' = [u \in Senders |->
                        IF user_state[u] = NoState \/ user_state[u].ttl <= SignupStep
                        THEN NoState
                        ELSE [user_state[u] EXCEPT !.ttl = @ - SignupStep,
                                                   !.age = @ + SignupStep]]
    /\ signup_clock' = [u \in Senders |->
                          IF user_state[u] = NoState THEN signup_clock[u]
                          ELSE IF user_state'[u] = NoState THEN Lapsed
                          ELSE IF signup_clock[u] = Lapsed THEN Lapsed
                          ELSE Min(signup_clock[u] + SignupStep, Overdue)]
    /\ UNCHANGED <<signup_tasks, outbox, user_preferences, collected, tasks>>
    /\ UNCHANGED <<groupRest, dedupVars, restVars>>

SignupInit ==
    /\ user_state = [u \in Senders |-> NoState]
    /\ signup_tasks = EmptyBag
    /\ outbox = NoResponse
    /\ user_preferences = [u \in Senders |-> NoRow]
    /\ collected = [u \in Senders |-> NoRow]
    /\ signup_clock = [u \in Senders |-> 0]

Stages == CollectingStages \cup {STATE_COMPLETED}

NextSignup ==
    \/ \E u \in Senders, body \in SignupTexts : RouteMessage(u, body)
    \/ \E u \in Senders : StartSignupFlow(u)
    \/ \E u \in Senders, body \in SignupTexts, stage \in Stages :
          HandleSignupFlow(u, Lower(body), stage)
    \/ \E u \in Senders, stage \in CollectingStages : HandleSetUserState(u, stage)
    \/ \E u \in Senders, body \in SignupTexts, stage \in Stages :
          Redeliver(u, Lower(body), stage)
    \/ \E u \in Senders : CompleteUserRegistration(u)
    \/ SignupTick

\* ------------------------------------------------------------------------
\* complete_user_registration and POST /api/beer-crawl/signup, step by step
\* ------------------------------------------------------------------------
CompletionTask(pc, u, data) ==
    SignupTask("complete_user_registration", pc, u, NoValue,
               [state |-> STATE_COMPLETED, data |-> data])

\* the statuses signup answers with: 201, 400, 500
AnswerPc(status) ==
    CASE status = 201 -> "answered_201"
      [] status = 400 -> "answered_400"
      [] OTHER -> "answered_500"

\* complete_user_registration reads the completion data; without data it
\* sends signup_timeout and returns
CompleteGetData(u) ==
    /\ BagIn(SignupTask("complete_user_registration", "run", u, NoValue, NoSnapshot),
             signup_tasks)
    /\ LET t == SignupTask("complete_user_registration", "run", u, NoValue, NoSnapshot)
           signup_data == get_signup_completion_data(u)
       IN IF ~HasCompletionData(u) \/ signup_data = NoValue
          THEN /\ outbox' = Send(u, "signup_timeout")
               /\ signup_tasks' = Take(signup_tasks, t)
          ELSE /\ signup_tasks' = Put(Take(signup_tasks, t),
                                      CompletionTask("post", u, signup_data))
               /\ UNCHANGED outbox
    /\ user_state' = AfterGet(u)
    /\ signup_clock' = ClockAfterGet(u)
    /\ UNCHANGED <<tasks, user_preferences, collected>>
    /\ UNCHANGED <<groupRest, dedupVars, restVars>>

\* signup: the query for an existing user; 400 when there is one
SignupRead(u, data) ==
    /\ BagIn(CompletionTask("post", u, data), signup_tasks)
    /\ signup_tasks' = Put(Take(signup_tasks, CompletionTask("post", u, data)),
                           CompletionTask(IF user_preferences[u] # NoRow
                                          THEN AnswerPc(400) ELSE "commit", u, data))
    /\ UNCHANGED <<user_state, outbox, tasks, user_preferences, collected,
                   signup_clock>>
    /\ UNCHANGED <<groupRest, dedupVars, restVars>>

\* signup: add and commit; the commit raises when whatsapp_number is taken
\* (unique) or preferred_area is missing (not nullable), which is answered 500
SignupCommit(u, data) ==
    /\ BagIn(CompletionTask("commit", u, data), signup_tasks)
    /\ LET fails == \/ user_preferences[u] # NoRow
                    \/ UserData(data).preferred_area = NoValue
       IN /\ signup_tasks' = Put(Take(signup_tasks, CompletionTask("commit", u, data)),
                                 CompletionTask(AnswerPc(IF fails THEN 500 ELSE 201),
                                                u, data))
          /\ user_preferences' = IF fails THEN user_preferences
                                 ELSE [user_preferences EXCEPT ![u] = UserData(data)]
    /\ UNCHANGED <<user_state, outbox, tasks, collected, signup_clock>>
    /\ UNCHANGED <<groupRest, dedupVars, restVars>>

\* the answers on which find_group_task is dispatched only for a new profile
DispatchesFindGroupWhenCreated(status) == status = 201

\* the answers on which complete_user_registration dispatches find_group_task
DispatchesFindGroup(status) == status \in {201, 400}

\* the response complete_user_registration sends on an answer, if any
AnswerResponse(status) ==
    CASE status = 201 -> "signup_success"
      [] status = 400 -> ""
      [] OTHER -> "error"

\* complete_user_registration handles the answer of signup
CompleteOnAnswer(u, data, status) ==
    /\ BagIn(CompletionTask(AnswerPc(status), u, data), signup_tasks)
    /\ signup_tasks' = Take(signup_tasks, CompletionTask(AnswerPc(status), u, data))
    /\ outbox' = IF AnswerResponse(status) # ""
                 THEN Send(u, AnswerResponse(status)) ELSE outbox
    /\ user_state' = clear_user_state(user_state, u)
    /\ tasks' = IF DispatchesFindGroup(status)
                THEN Put(tasks, Task("find_group_task", u)) ELSE tasks
    /\ UNCHANGED <<user_preferences, collected, signup_clock>>
    /\ UNCHANGED <<groupRest, dedupVars, restVars>>

\* the data a completed conversation state can hold
Data_all == [preferred_area |-> AREAS[4], preferred_group_type |-> GROUP_TYPES[1],
             gender |-> GENDER_OPTIONS[2], age_range |-> AGE_RANGES[2]]
CompletionData ==
    {[preferred_area |-> AREAS[4]], [age_range |-> AGE_RANGES[2]], Data_all}

\* complete_user_registration tasks queued for one completed conversation
Completions == {1, 2}

\* A conversation has just completed and one or two
\* complete_user_registration tasks are queued for it; the number may have
\* a profile already, created by an earlier call of the signup API.
RegisterInit ==
    /\ \E data \in CompletionData :
          user_state = [u \in Senders |->
                          [state |-> STATE_COMPLETED, data |-> data, age |-> 0,
                           ttl |-> state_timeout]]
    /\ \E n \in Completions :
          signup_tasks =
              [t \in {SignupTask("complete_user_registration", "run", 1,
                                 NoValue, NoSnapshot)} |-> n]
    /\ outbox = NoResponse
    /\ \E row \in {NoRow, UserData(Data_all)} :
          user_preferences = [u \in Senders |-> row]
    /\ collected = [u \in Senders |-> NoRow]
    /\ signup_clock = [u \in Senders |-> 0]

NextRegister ==
    \/ \E u \in Senders : CompleteGetData(u)
    \/ \E u \in Senders, data \in CompletionData : SignupRead(u, data)
    \/ \E u \in Senders, data \in CompletionData : SignupCommit(u, data)
    \/ \E u \in Senders, data \in CompletionData, status \in {201, 400, 500} :
          CompleteOnAnswer(u, data, status)

\* ------------------------------------------------------------------------
\* Outbound sends and celery retries
\* ------------------------------------------------------------------------
\* max_retries of send_whatsapp_message and of progress_to_next_bar
max_retries == 3

\* the deliveries followed
MaxDeliveries == 2
Deliveries == 1..MaxDeliveries

\* USE_GREEN_API, else WHATSAPP_TOKEN and WHATSAPP_PHONE_ID, else neither
Channels == {"green_api", "facebook", "none"}
RetriedTasks == {"send_whatsapp_message", "progress_to_next_bar"}

\* what a call of the provider or of the API comes to: an HTTP status, or
\* NoAnswer when requests raises (connection error, timeout)
NoAnswer == 0
Answers == {NoAnswer, 200, 201, 304, 400, 503}

NoDelivery == [name |-> "", pc |-> "none", retries |-> 0, attempts |-> 0,
               answer |-> NoAnswer]

\* GreenAPIClient.send_message: raise_for_status and every requests
\* exception are turned into an error result
GreenError(answer) == answer = NoAnswer \/ answer >= 400

\* send_whatsapp_message: TRUE when the body raises requests.RequestException
SendRaises(ch, answer) ==
    CASE ch = "green_api" -> GreenError(answer)
      [] ch = "facebook" -> answer = NoAnswer \/ (answer # 200 /\ answer >= 400)
      [] OTHER -> FALSE

\* progress_to_next_bar: TRUE when the body raises requests.RequestException
ProgressRaises(answer) == answer = NoAnswer

\* Task.retry: the task is queued again with one more retry, or given up
\* once request.retries has reached max_retries
Retry(d) ==
    IF d.retries >= max_retries
    THEN [d EXCEPT !.pc = "given_up"]
    ELSE [d EXCEPT !.pc = "queued", !.retries = @ + 1]

\* one execution of a queued task whose call is answered with answer
Execute(d, raises, answer) ==
    LET run == [d EXCEPT !.attempts = @ + 1, !.answer = answer]
    IN IF raises THEN Retry(run) ELSE [run EXCEPT !.pc = "returned"]

\* a worker executes send_whatsapp_message
RunSendWhatsappMessage(i, answer) ==
    /\ outgoing[i].pc = "queued"
    /\ outgoing[i].name = "send_whatsapp_message"
    /\ channel = "green_api" => answer \in {NoAnswer, 200, 503}
    /\ channel = "none" => answer = NoAnswer
    /\ outgoing' = [outgoing EXCEPT ![i] =
                       Execute(@, SendRaises(channel, answer), answer)]
    /\ UNCHANGED channel
    /\ UNCHANGED <<groupVars, dedupVars, signupVars, callVars>>

\* a worker executes progress_to_next_bar; what the task does with an answer
\* is ProgressToNextBar
RunProgressToNextBar(i, answer) ==
    /\ outgoing[i].pc = "queued"
    /\ outgoing[i].name = "progress_to_next_bar"
    /\ answer \in {NoAnswer, 200, 400}
    /\ outgoing' = [outgoing EXCEPT ![i] =
                       Execute(@, ProgressRaises(answer), answer)]
    /\ UNCHANGED channel
    /\ UNCHANGED <<groupVars, dedupVars, signupVars, callVars>>

\* nothing is being sent
SendIdle ==
    /\ channel = "none"
    /\ outgoing = [i \in Deliveries |-> NoDelivery]

\* ------------------------------------------------------------------------
\* Extraction of an option from a message
\* ------------------------------------------------------------------------
UpperChar(c) ==
    IF \E i \in 1..26 : LowerCase[i] = c
    THEN UpperCase[CHOOSE i \in 1..26 : LowerCase[i] = c]
    ELSE c

\* str.upper()
Upper(t) == [i \in 1..Len(t) |-> UpperChar(t[i])]

\* str.capitalize()
Capitalize(t) == [i \in 1..Len(t) |-> IF i = 1 THEN UpperChar(t[i]) ELSE LowerChar(t[i])]

\* the option list of a stage
OptionsOf(stage) ==
    CASE stage = COLLECTING_AREA -> AREAS
      [] stage = COLLECTING_GROUP_TYPE -> GROUP_TYPES
      [] stage = COLLECTING_GENDER -> GENDER_OPTIONS
      [] stage = COLLECTING_AGE -> AGE_RANGES

Range(f) == {f[i] : i \in DOMAIN f}

\* the ways a text is written in letter cases
CaseVariants(t) == {t, Upper(t), Capitalize(t)}

\* the messages extraction is called with: every option of every stage in
\* three letter cases, and messages naming no option
ExtractionTexts ==
    UNION {UNION {CaseVariants(o) : o \in Range(OptionsOf(stage))} :
              stage \in CollectingStages}
        \cup {Text_join, Body_hello, <<>>}

NoExtraction == [stage |-> "", message |-> <<>>, done |-> FALSE, value |-> NoValue]

\* handle_signup_flow calls the stage's extract_*_from_message on the message
ExtractFromMessage ==
    /\ ~extraction.done
    /\ extraction.stage \in CollectingStages
    /\ extraction' = [extraction EXCEPT !.done = TRUE,
                                        !.value = ExtractFor(extraction.stage,
                                                             extraction.message)]
    /\ UNCHANGED <<groupVars, dedupVars, signupVars, sendVars, verification>>

ExtractionInit ==
    \E stage \in CollectingStages, message \in ExtractionTexts :
        extraction = [NoExtraction EXCEPT !.stage = stage, !.message = message]

NextExtract == ExtractFromMessage

\* ------------------------------------------------------------------------
\* GET /webhook/whatsapp
\* ------------------------------------------------------------------------
\* None: a query argument or environment variable that is absent
None == [present |-> FALSE, value |-> ""]
Str(s) == [present |-> TRUE, value |-> s]

VerifyTokens == {Str(""), Str("test_verify_token_12345"), Str("beer_crawl_verify"),
                 Str("guess")}
Challenges == {Str(""), Str("1158201444"), Str("test123")}

NoVerification(configured) ==
    [configured |-> configured, asked |-> FALSE, token |-> None,
     challenge |-> None, status |-> 0, body |-> ""]

\* the == of whatsapp_webhook_verify: None equals None
TokenMatches(verify_token, configured) == verify_token = configured

whatsapp_webhook_verify(verify_token, challenge) ==
    /\ verification' =
          IF TokenMatches(verify_token, verification.configured)
          THEN [verification EXCEPT !.asked = TRUE, !.token = verify_token,
                                    !.challenge = challenge, !.status = 200,
                                    !.body = IF challenge.present
                                             THEN challenge.value ELSE ""]
          ELSE [verification EXCEPT !.asked = TRUE, !.token = verify_token,
                                    !.challenge = challenge, !.status = 403,
                                    !.body = "Invalid verification token"]
    /\ UNCHANGED <<groupVars, dedupVars, signupVars, sendVars, extraction>>

VerifyInit ==
    \E configured \in VerifyTokens \cup {None} :
        verification = NoVerification(configured)

NextVerify ==
    \E verify_token \in VerifyTokens \cup {None}, challenge \in Challenges \cup {None} :
        whatsapp_webhook_verify(verify_token, challenge)

\* no function is being called and no token is configured
CallIdle ==
    /\ extraction = NoExtraction
    /\ verification = NoVerification(None)

RestInit == SendIdle /\ CallIdle

\* every delivery is a task just queued, under some configuration
SendInit ==
    /\ channel \in Channels
    /\ outgoing \in [Deliveries ->
                       {[NoDelivery EXCEPT !.name = n, !.pc = "queued"] :
                           n \in RetriedTasks}]

NextSend ==
    \/ \E i \in Deliveries, a \in Answers : RunSendWhatsappMessage(i, a)
    \/ \E i \in Deliveries, a \in Answers : RunProgressToNextBar(i, a)

\* ------------------------------------------------------------------------
\* Specifications of the group store and its tasks
\* ------------------------------------------------------------------------
FindRequests ==
    {Request("find_group", u, g, c) : u \in Users, g \in 0..MaxGroups,
                                     c \in 0..MAX_GROUP_SIZE}

StartRequests ==
    {Request("start_group", u, get_pending_confirmation(u), 0) : u \in Users}

JoinTasks == {Task("find_group_task", u) : u \in Users}

CrawlTasks ==
    {Task(n, g) : n \in {"schedule_bar_progression", "progress_to_next_bar",
                         "end_group_session"}, g \in 1..MaxGroups}

NoSweeps ==
    [runs |-> 0, listed |-> {},
     ends |-> [g \in 1..MaxGroups |-> 0],
     byes |-> [g \in 1..MaxGroups |-> 0]]

\* Group formation: registered users, bars seeded, no group yet.
InitJoin ==
    /\ crawl_groups = <<>>
    /\ group_members = <<>>
    /\ crawl_sessions = <<>>
    /\ \E n \in BarCounts : bars = 1..n
    /\ requests = EmptyBag
    /\ tasks = EmptyBag
    /\ cleanup = Idle
    /\ advances = [g \in 1..MaxGroups |-> 0]
    /\ sweeps = NoSweeps
    /\ DedupInit
    /\ SignupInit
    /\ RestInit

NextJoin ==
    \/ \E u \in Users : RequestGroup(u)
    \/ \E u \in Users : FindGroupRead(u)
    \/ \E r \in FindRequests : FindGroupCommit(r)
    \/ \E t \in JoinTasks : LoseTask(t)

SpecJoin == InitJoin /\ [][NextJoin]_vars

\* find-group calls executed one after another: a call reaches the handler
\* when no other call is between its queries and its commit
FindGroupInTurn(u) ==
    /\ requests = EmptyBag
    /\ FindGroupRead(u)

NextTurns ==
    \/ \E u \in Users : RequestGroup(u)
    \/ \E u \in Users : FindGroupInTurn(u)
    \/ \E r \in FindRequests : FindGroupCommit(r)

SpecTurns == InitJoin /\ [][NextTurns]_vars

\* the users with find_group_task queued twice
TwiceUsers == {1, 2}

\* Two find_group_task are queued for a user at once: the re-check of an
\* earlier call and the one find_alternative_group dispatches, or those of
\* two messages.
InitTwice ==
    /\ crawl_groups = <<>>
    /\ group_members = <<>>
    /\ crawl_sessions = <<>>
    /\ bars = 1..3
    /\ requests = EmptyBag
    /\ \E S \in SUBSET TwiceUsers :
          tasks = [t \in {Task("find_group_task", u) : u \in TwiceUsers} |->
                     IF t.arg \in S THEN 2 ELSE 1]
    /\ cleanup = Idle
    /\ advances = [g \in 1..MaxGroups |-> 0]
    /\ sweeps = NoSweeps
    /\ DedupInit /\ SignupInit /\ RestInit

NextTwice ==
    \/ \E u \in TwiceUsers : FindGroupRead(u)
    \/ \E r \in FindRequests : FindGroupCommit(r)

SpecTwice == InitTwice /\ [][NextTwice]_vars

\* The life of a formed group: the first MIN_GROUP_SIZE users have formed
\* group 1 (the first created it, the others joined it) and no find-group
\* call or task is pending; this state is reachable in SpecJoin.
FormedMembers ==
    [i \in 1..MIN_GROUP_SIZE |->
        [group_id |-> 1, user_preferences_id |-> i, is_admin |-> (i = 1)]]

InitCrawl ==
    /\ crawl_groups = <<[area |-> PreferredArea(1), status |-> FORMING,
                         max_members |-> MAX_GROUP_SIZE,
                         current_members |-> MIN_GROUP_SIZE,
                         whatsapp_group_id |-> NoGroup]>>
    /\ group_members = FormedMembers
    /\ crawl_sessions = <<>>
    /\ \E n \in BarCounts : bars = 1..n
    /\ requests = EmptyBag
    /\ tasks = EmptyBag
    /\ cleanup = Idle
    /\ advances = [g \in 1..MaxGroups |-> 0]
    /\ sweeps = NoSweeps
    /\ DedupInit
    /\ SignupInit
    /\ RestInit

NextCrawl ==
    \/ \E u \in Users : StartGroupRead(u)
    \/ \E r \in StartRequests : StartGroupCommit(r)
    \/ \E g \in 1..MaxGroups : ScheduleBarProgression(g)
    \/ \E g \in 1..MaxGroups : ProgressToNextBar(g)
    \/ \E g \in 1..MaxGroups : ApiNextBar(g)
    \/ \E g \in 1..MaxGroups : EndGroupSession(g)
    \/ DailyCleanupFetch
    \/ DailyCleanupEnd
    \/ DailyCleanupReturn
    \/ \E t \in CrawlTasks : LoseTask(t)

SpecCrawl == InitCrawl /\ [][NextCrawl]_vars

\* The last places of a group and its start: group 1 has all its members
\* but one (this state is reachable in SpecJoin), two more users ask to join
\* and user 1 confirms.
LastJoiners == {MAX_GROUP_SIZE, MAX_GROUP_SIZE + 1}
Confirmers == {1}

InitForm ==
    /\ crawl_groups = <<[area |-> PreferredArea(1), status |-> FORMING,
                         max_members |-> MAX_GROUP_SIZE,
                         current_members |-> MAX_GROUP_SIZE - 1,
                         whatsapp_group_id |-> NoGroup]>>
    /\ group_members = [i \in 1..(MAX_GROUP_SIZE - 1) |->
                          [group_id |-> 1, user_preferences_id |-> i,
                           is_admin |-> (i = 1)]]
    /\ crawl_sessions = <<>>
    /\ bars = 1..3
    /\ requests = EmptyBag
    /\ tasks = EmptyBag
    /\ cleanup = Idle
    /\ advances = [g \in 1..MaxGroups |-> 0]
    /\ sweeps = NoSweeps
    /\ DedupInit
    /\ SignupInit
    /\ RestInit

NextForm ==
    \/ \E u \in LastJoiners : RequestGroup(u)
    \/ \E u \in LastJoiners : FindGroupRead(u)
    \/ \E r \in FindRequests : FindGroupCommit(r)
    \/ \E u \in Confirmers : StartGroupRead(u)
    \/ \E r \in StartRequests : StartGroupCommit(r)
    \/ \E t \in JoinTasks : LoseTask(t)

SpecForm == InitForm /\ [][NextForm]_vars

\* The re-check of a creator while the group lives: user 1 has created
\* group 1 and find_group_task has queued its re-check (this state is
\* reachable in SpecJoin); user 2 asks to join, user 1 confirms, the group is
\* advanced and ended.  No new request to join is made.
InitRecheck ==
    /\ crawl_groups = <<[area |-> PreferredArea(1), status |-> FORMING,
                         max_members |-> MAX_GROUP_SIZE,
                         current_members |-> 1,
                         whatsapp_group_id |-> NoGroup]>>
    /\ group_members = <<[group_id |-> 1, user_preferences_id |-> 1,
                          is_admin |-> TRUE]>>
    /\ crawl_sessions = <<>>
    /\ bars = 1..3
    /\ requests = EmptyBag
    /\ tasks = SetToBag({Task("find_group_task", u) : u \in TwiceUsers})
    /\ cleanup = Idle
    /\ advances = [g \in 1..MaxGroups |-> 0]
    /\ sweeps = NoSweeps
    /\ DedupInit /\ SignupInit /\ RestInit

NextRecheck ==
    \/ \E u \in TwiceUsers : FindGroupRead(u)
    \/ \E r \in FindRequests : FindGroupCommit(r)
    \/ \E u \in Confirmers : StartGroupRead(u)
    \/ \E r \in StartRequests : StartGroupCommit(r)
    \/ \E g \in 1..MaxGroups : ScheduleBarProgression(g)
    \/ \E g \in 1..MaxGroups : ProgressToNextBar(g)
    \/ \E g \in 1..MaxGroups : ApiNextBar(g)
    \/ \E g \in 1..MaxGroups : EndGroupSession(g)

SpecRecheck == InitRecheck /\ [][NextRecheck]_vars

\* Progression of a started group: group 1 has been activated by one start
\* call, or by two concurrent ones (both states are reachable in SpecCrawl),
\* each having added its sessions and dispatched schedule_bar_progression.
Activations == {1, 2}

RECURSIVE Repeat(_, _)
Repeat(q, n) == IF n = 0 THEN <<>> ELSE q \o Repeat(q, n - 1)

InitAdvance ==
    /\ crawl_groups = <<[area |-> PreferredArea(1), status |-> ACTIVE,
                         max_members |-> MAX_GROUP_SIZE,
                         current_members |-> MIN_GROUP_SIZE,
                         whatsapp_group_id |-> NoGroup]>>
    /\ group_members = FormedMembers
    /\ bars = 1..3
    /\ \E n \in Activations :
          /\ crawl_sessions = Repeat(NewSessions(1, <<1, 2, 3>>), n)
          /\ tasks = [t \in {Task("schedule_bar_progression", 1)} |-> n]
    /\ requests = EmptyBag
    /\ cleanup = Idle
    /\ advances = [g \in 1..MaxGroups |-> 0]
    /\ sweeps = NoSweeps
    /\ DedupInit
    /\ SignupInit
    /\ RestInit

NextAdvance ==
    \/ \E g \in 1..MaxGroups : ScheduleBarProgression(g)
    \/ \E g \in 1..MaxGroups : ProgressToNextBar(g)
    \/ \E g \in 1..MaxGroups : ApiNextBar(g)
    \/ \E g \in 1..MaxGroups : EndGroupSession(g)
    \/ DailyCleanupFetch
    \/ DailyCleanupEnd
    \/ DailyCleanupReturn

SpecAdvance == InitAdvance /\ [][NextAdvance]_vars

\* Start calls on group 1 of user 1, with all its members or one short of
\* MIN_GROUP_SIZE, in a table holding a closed bar, a bar of another area
\* and 2, 3 or 6 active bars of the group's area.
StartBarCounts == {2, 3, 6}

InitStart ==
    /\ \E m \in {MIN_GROUP_SIZE - 1, MIN_GROUP_SIZE} :
          /\ crawl_groups = <<[area |-> PreferredArea(1), status |-> FORMING,
                               max_members |-> MAX_GROUP_SIZE,
                               current_members |-> m,
                               whatsapp_group_id |-> NoGroup]>>
          /\ group_members = [i \in 1..m |->
                                [group_id |-> 1, user_preferences_id |-> i,
                                 is_admin |-> (i = 1)]]
    /\ crawl_sessions = <<>>
    /\ \E n \in StartBarCounts : bars = (1..n) \cup {7, 8}
    /\ requests = EmptyBag
    /\ tasks = EmptyBag
    /\ cleanup = Idle
    /\ advances = [g \in 1..MaxGroups |-> 0]
    /\ sweeps = NoSweeps
    /\ DedupInit
    /\ SignupInit
    /\ RestInit

NextStart ==
    \/ \E u \in Confirmers : StartGroupRead(u)
    \/ \E r \in StartRequests : StartGroupCommit(r)
    \/ \E u \in Confirmers : StartGroupRefused(u)
    \/ \E u \in Confirmers : SendWhatsappMessage(u)

SpecStart == InitStart /\ [][NextStart]_vars

GroupInit ==
    /\ crawl_groups = <<>>
    /\ group_members = <<>>
    /\ crawl_sessions = <<>>
    /\ bars = 1..3
    /\ requests = EmptyBag
    /\ tasks = EmptyBag
    /\ cleanup = Idle
    /\ advances = [g \in 1..MaxGroups |-> 0]
    /\ sweeps = NoSweeps

\* The deduplication and rate limiting layer of process_whatsapp_message
InitDedup == DedupInit /\ GroupInit /\ SignupInit /\ RestInit

SpecDedup == InitDedup /\ [][NextDedup]_vars

SpecClear == InitDedup /\ [][NextClear]_vars

\* Message processing by one worker while redis may raise
SpecOutage == InitDedup /\ [][NextOutage]_vars

\* Retried tasks under every sequence of provider answers
InitSend == SendInit /\ CallIdle /\ GroupInit /\ DedupInit /\ SignupInit

\* A call of extraction
InitExtract ==
    ExtractionInit /\ verification = NoVerification(None) /\ SendIdle
    /\ GroupInit /\ DedupInit /\ SignupInit

SpecExtract == InitExtract /\ [][NextExtract]_vars

\* Webhook verification under some configuration
InitVerify ==
    VerifyInit /\ extraction = NoExtraction /\ SendIdle
    /\ GroupInit /\ DedupInit /\ SignupInit

SpecVerify == InitVerify /\ [][NextVerify]_vars

SpecSend == InitSend /\ [][NextSend]_vars

\* Registration at the end of a conversation
InitRegister == RegisterInit /\ GroupInit /\ DedupInit /\ RestInit

SpecRegister == InitRegister /\ [][NextRegister]_vars

\* The signup conversation of a sender whose messages are allowed
InitSignup == SignupInit /\ GroupInit /\ DedupInit /\ RestInit

SpecSignup == InitSignup /\ [][NextSignup]_vars

\* The signup conversation of a sender whose messages arrive one at a time:
\* a message is routed when the tasks of the messages before it have run.
\* Tasks are still delivered more than once.
RouteMessageInTurn(u, body) ==
    /\ signup_tasks = EmptyBag
    /\ RouteMessage(u, body)

NextReply ==
    \/ \E u \in Senders, body \in SignupTexts : RouteMessageInTurn(u, body)
    \/ \E u \in Senders : StartSignupFlow(u)
    \/ \E u \in Senders, body \in SignupTexts, stage \in Stages :
          HandleSignupFlow(u, Lower(body), stage)
    \/ \E u \in Senders, stage \in CollectingStages : HandleSetUserState(u, stage)
    \/ \E u \in Senders, body \in SignupTexts, stage \in Stages :
          Redeliver(u, Lower(body), stage)
    \/ \E u \in Senders : CompleteUserRegistration(u)
    \/ SignupTick

SpecReply == InitSignup /\ [][NextReply]_vars

\* texts for every branch of the routing, and texts fit for several
RouteTexts ==
    {<<"J", "o", "i", "n">>,
     <<"Y", "E", "S">>,
     <<"y", "e", "s", " ", "p", "l", "e", "a", "s", "e">>,
     <<"I", " ", "d", "o", "n", "'", "t", " ", "l", "i", "k", "e", " ", "t", "h", "i", "s", " ", "g", "r", "o", "u", "p">>,
     <<"F", "i", "n", "d", " ", "a", "n", "o", "t", "h", "e", "r", " ", "o", "n", "e">>,
     <<"h", "e", "l", "p">>,
     <<"H", "e", "l", "p", " ", "m", "e", ",", " ", "y", "e", "s">>,
     <<"h", "e", "l", "l", "o">>,
     <<"s", "i", "g", "n", " ", "u", "p", " ", "f", "o", "r", " ", "h", "e", "l", "p">>,
     <<"f", "i", "n", "d", " ", "a", "n", "o", "t", "h", "e", "r", " ", "b", "e", "e", "r">>}

\* the conversation states a message may find stored
RouteStates ==
    {NoState,
     [state |-> COLLECTING_AREA, data |-> NoValue, age |-> 0, ttl |-> state_timeout],
     [state |-> STATE_COMPLETED, data |-> NoValue, age |-> 0, ttl |-> state_timeout]}

\* Allowed text messages of a sender arrive and are routed; the handlers
\* they dispatch are left queued.
InitRoute ==
    /\ \E st \in RouteStates : user_state = [u \in Senders |-> st]
    /\ signup_tasks = EmptyBag
    /\ outbox = NoResponse
    /\ user_preferences = [u \in Senders |-> NoRow]
    /\ collected = [u \in Senders |-> NoRow]
    /\ signup_clock = [u \in Senders |-> 0]
    /\ GroupInit /\ DedupInit /\ RestInit

NextRoute == \E u \in Senders, body \in RouteTexts : RouteMessage(u, body)

SpecRoute == InitRoute /\ [][NextRoute]_vars

\* ------------------------------------------------------------------------
\* Properties of group formation and of the crawl
\* ------------------------------------------------------------------------

\* C1: for every group, neither current_members nor the number of membership
\* rows exceeds max_members, in every reachable state, also when find-group
\* calls of distinct users run concurrently.
C1_CapacityNeverExceeded ==
    \A g \in GroupIds :
        /\ crawl_groups[g].current_members <= crawl_groups[g].max_members
        /\ Cardinality(MemberRows(g)) <= crawl_groups[g].max_members

\* C4: every status change of a group is forming -> active, active ->
\* completed, or a change to cancelled; the status never moves backward,
\* never goes from forming straight to completed, and a completed or
\* cancelled group keeps its status.
C4_StatusMonotonic ==
    [][\A g \in GroupIds :
          LET a == crawl_groups[g].status
              b == crawl_groups'[g].status
          IN a # b =>
               \/ a = FORMING /\ b = ACTIVE
               \/ a = ACTIVE /\ b = COMPLETED
               \/ a \in {FORMING, ACTIVE} /\ b = CANCELLED]_vars

\* C5: a group activated in an area with exactly 3 active bars has a
\* 3-venue sequence, it is completed by advances exactly when three advances
\* have been made, and the advance that completes it queues no further advance.
C5_ThreeVenuesThreeAdvances ==
    [][\A g \in GroupIds :
          Cardinality(bars) = 3 =>
            /\ crawl_groups'[g].status # FORMING
                 => Cardinality({i \in 1..Len(crawl_sessions') :
                                   crawl_sessions'[i].group_id = g}) \in {0, 3}
            /\ advances'[g] <= 3
            /\ advances'[g] = 3 => crawl_groups'[g].status = COMPLETED
            /\ (advances'[g] # advances[g] /\ crawl_groups'[g].status = COMPLETED)
                 => /\ advances'[g] = 3
                    /\ Count(tasks', Task("progress_to_next_bar", g))
                         <= Count(tasks, Task("progress_to_next_bar", g))
                    /\ Count(tasks', Task("schedule_bar_progression", g))
                         <= Count(tasks, Task("schedule_bar_progression", g))]_vars

\* C6: after two runs of the daily sweep every group that was active at the
\* first run has been ended by the sweep exactly once and has received
\* exactly one farewell.
C6_SweepTwiceEndsOnce ==
    sweeps.runs = 2 =>
        \A g \in sweeps.listed : sweeps.ends[g] = 1 /\ sweeps.byes[g] = 1

\* C7: when a run of the daily sweep returns, no group that was active when
\* the run fetched its list is still active.
C7_SweepLeavesNoneActive ==
    [][(cleanup.running /\ ~cleanup'.running) =>
          \A g \in cleanup.active : crawl_groups'[g].status # ACTIVE]_vars

\* ------------------------------------------------------------------------
\* Properties of deduplication and rate limiting
\* ------------------------------------------------------------------------

\* C2: of the executions of process_whatsapp_message for one sender, text
\* and type that run within MESSAGE_COOLDOWN seconds of the first of them to
\* pass the duplicate check, no other passes it, whatever the interleaving
\* of the workers.
C2_OnePassPerCooldown ==
    \A k \in MessageKeys : passes[k].n <= 1

\* C8: the counter of a sender equals the number of allowed messages counted
\* since the counter appeared, and an allowed message gets the rate limit
\* reply exactly when it is counted after RATE_LIMIT_MAX others: the first
\* RATE_LIMIT_MAX are processed, the next one and those after it are not.
C8_RateLimitedAfterMax ==
    /\ \A u \in Senders : msg_count[u].n = counted[u]
    /\ \A w \in Workers :
          workers[w].outcome = "rate_limited" <=> workers[w].ord > RATE_LIMIT_MAX

\* C8: one worker has processed the RATE_LIMIT_MAX-th counted message and
\* another has answered the next one with the rate limit reply, the counter
\* having gone on to RATE_LIMIT_MAX + 1.
C8_Witness ==
    \E w, v \in Workers :
        /\ workers[w].pc = "done" /\ workers[w].outcome = "rate_limited"
        /\ workers[w].ord = RATE_LIMIT_MAX + 1
        /\ workers[v].pc = "done" /\ workers[v].outcome = "processed"
        /\ workers[v].ord = RATE_LIMIT_MAX
        /\ \E u \in Senders : msg_count[u].n >= RATE_LIMIT_MAX + 1

\* C13 as stated: an execution during which redis raised, in the duplicate
\* check or in the counter increment, ends processed (allowed, not rate
\* limited, handed to routing).
C13_RaiseMeansProcessed ==
    \A w \in Workers :
        (workers[w].pc = "done" /\ workers[w].raised # "")
            => workers[w].outcome = "processed"

\* C13: an execution whose duplicate check raised is never ignored and goes
\* on to the counter; an execution whose counter increment raised is never
\* rate limited and ends processed.
C13_EachCheckFailsOpen ==
    \A w \in Workers :
        /\ workers[w].raised = "dedup"
              => workers[w].pc \in {"incr", "expire", "done"}
                 /\ workers[w].outcome # "ignored"
        /\ workers[w].raised = "counter"
              => workers[w].pc = "done" /\ workers[w].outcome = "processed"

\* C13: the counter of a sender stands at RATE_LIMIT_MAX or more, and an
\* execution for which the increment raised has ended processed.
C13_Witness ==
    \E w \in Workers :
        /\ workers[w].pc = "done" /\ workers[w].raised = "counter"
        /\ workers[w].outcome = "processed"
        /\ \E u \in Senders : msg_count[u].n >= RATE_LIMIT_MAX

\* ------------------------------------------------------------------------
\* Properties of the signup flow
\* ------------------------------------------------------------------------

\* C3: whenever the conversation of a sender stands at COMPLETED within its
\* lifetime, the profile complete_user_registration builds from the stored
\* data has the area, group type, gender and age range that were extracted
\* from the messages of the signup.
C3_RoundTripProfile ==
    \A u \in Senders :
        get_user_state(u).state = STATE_COMPLETED
            => UserData(get_signup_completion_data(u)) = collected[u]

C10_StageAdvancesInOrder ==
    [][\A u \in Senders :
          LET a == user_state[u].state
              b == user_state'[u].state
          IN (a # b /\ a \in Stages /\ b \in Stages /\ b # COLLECTING_AREA)
                => (a \in CollectingStages /\ b = NextStage(a))]_vars

\* C11: a conversation state that is still in force was created by
\* start_signup_flow no more than state_timeout seconds ago, whatever stage
\* transitions and field updates happened since.
C11_ExpiryFixedAtCreation ==
    \A u \in Senders :
        (get_user_state(u) # NoState /\ signup_clock[u] # Lapsed)
            => signup_clock[u] <= state_timeout

\* C12: once the conversation state of a sender has expired, a state comes
\* into force again only as a fresh one: at the area stage with no data.
C12_ExpiryDiscardsConversation ==
    [][\A u \in Senders :
          (/\ signup_clock[u] = Lapsed
           /\ get_user_state(u) = NoState
           /\ user_state'[u] # NoState)
          => /\ user_state'[u].state = COLLECTING_AREA
             /\ user_state'[u].data = NoValue]_vars

\* ------------------------------------------------------------------------
\* Properties of activation and progression
\* ------------------------------------------------------------------------

\* C14: the status of a group goes from forming to active only in a step
\* that handles a start call for that group, posted by
\* confirm_group_participation; no find-group call and no task of
\* find_group_task makes that change, also when it fills the group.
C14_ActivationOnlyByStart ==
    [][\A g \in 1..MaxGroups :
          (/\ g \in GroupIds
           /\ crawl_groups[g].status = FORMING
           /\ crawl_groups'[g].status = ACTIVE)
          => \E r \in BagToSet(requests) :
                /\ r.op = "start_group" /\ r.group = g
                /\ requests' = Take(requests, r)]_vars

\* C14: a find-group call has filled group 1, its task has ended, and the
\* group is still forming.
C14_Witness ==
    /\ Len(crawl_groups) >= 1
    /\ crawl_groups[1].current_members >= crawl_groups[1].max_members
    /\ Len(group_members) >= MAX_GROUP_SIZE
    /\ crawl_groups[1].status = FORMING
    /\ tasks = EmptyBag /\ requests = EmptyBag

\* C15: at any time at most one advance task is pending for a group: queued
\* progress_to_next_bar tasks and schedule_bar_progression tasks about to
\* queue one, under every interleaving of confirmations, start calls,
\* advances and the sweep.
C15_OnePendingAdvance ==
    \A g \in 1..MaxGroups :
        Count(tasks, Task("progress_to_next_bar", g))
          + Count(tasks, Task("schedule_bar_progression", g)) <= 1

\* C16: a run of progress_to_next_bar that moves an active group on to a next
\* venue queues exactly one follow-up task: schedule_bar_progression or
\* end_group_session, never neither and never both.
C16_AdvanceSchedulesOneFollowUp ==
    [][\A g \in 1..MaxGroups :
          (/\ BagIn(Task("progress_to_next_bar", g), tasks)
           /\ NextBarOk(g)
           /\ NextBar(g).bar
           /\ advances'[g] = advances[g] + 1
           /\ tasks' # tasks)
          => LET tk == Take(tasks, Task("progress_to_next_bar", g))
             IN \/ tasks' = Put(tk, Task("schedule_bar_progression", g))
                \/ tasks' = Put(tk, Task("end_group_session", g))]_vars

\* C17: a run of progress_to_next_bar for a group that is not active (never
\* started, completed or ended) changes no group row and no session row and
\* queues nothing: the task just goes away.
C17_StaleAdvanceIsNoOp ==
    [][\A g \in 1..MaxGroups :
          (/\ BagIn(Task("progress_to_next_bar", g), tasks)
           /\ ~(g \in GroupIds /\ crawl_groups[g].status = ACTIVE)
           /\ Count(tasks', Task("progress_to_next_bar", g))
                < Count(tasks, Task("progress_to_next_bar", g)))
          => /\ crawl_groups' = crawl_groups
             /\ crawl_sessions' = crawl_sessions
             /\ advances' = advances
             /\ tasks' = Take(tasks, Task("progress_to_next_bar", g))]_vars

\* C17: group 1 was ended before any advance, every advance task queued for
\* it has since fired, none of them moved it, and a session left current by
\* the end call is still untouched.
C17_Witness ==
    /\ crawl_groups[1].status = COMPLETED
    /\ tasks = EmptyBag
    /\ advances[1] = 0
    /\ CurrentSession(1) # 0

\* C18: a start call handled while the group is not forming, has fewer than
\* MIN_GROUP_SIZE members, or has fewer than 3 active bars in its area is
\* answered with an error and writes nothing: no session is created and the
\* group row keeps its status (forming, for a forming group).
C18_RefusedStartWritesNothing ==
    [][\A u \in Confirmers :
          LET g == get_pending_confirmation(u)
              venues == {b \in bars : /\ BarTable[b].area = crawl_groups[g].area
                                      /\ BarTable[b].is_active}
          IN (/\ \/ crawl_groups[g].status # FORMING
                 \/ crawl_groups[g].current_members < MIN_GROUP_SIZE
                 \/ Cardinality(venues) < 3
              /\ \/ requests' = Put(requests, Request("start_group", u, g, 0))
                 \/ tasks' = Put(tasks, Task("send_whatsapp_message", u)))
             => /\ tasks' = Put(tasks, Task("send_whatsapp_message", u))
                /\ requests' = requests
                /\ crawl_groups' = crawl_groups
                /\ crawl_sessions' = crawl_sessions]_vars

\* C18: a start of the forming group 1 has been refused (the apology is
\* queued) for want of active bars although the bar table holds three or more
\* rows, and the group is still forming without a session.
C18_Witness ==
    /\ BagIn(Task("send_whatsapp_message", 1), tasks)
    /\ crawl_groups[1].status = FORMING
    /\ crawl_groups[1].current_members >= MIN_GROUP_SIZE
    /\ Cardinality(bars) >= 3
    /\ crawl_sessions = <<>>

\* C19: a start call that succeeds adds, for its group, sessions for
\* min(5, available) pairwise distinct bars, all of them active bars of the
\* group's area, numbered 1..n in the order added, the first one and only
\* the first marked current, and sets the group active.
C19_ActivationAssignsVenues ==
    [][\A r \in BagToSet(requests) :
          (r.op = "start_group" /\ requests' = Take(requests, r))
          => LET g == r.group
                 venues == {b \in bars : /\ BarTable[b].area = crawl_groups[g].area
                                         /\ BarTable[b].is_active}
                 n == IF Cardinality(venues) < 5 THEN Cardinality(venues) ELSE 5
                 old == Len(crawl_sessions)
             IN /\ Len(crawl_sessions') = old + n
                /\ SubSeq(crawl_sessions', 1, old) = crawl_sessions
                /\ \A i \in 1..n :
                      /\ crawl_sessions'[old + i].group_id = g
                      /\ crawl_sessions'[old + i].bar_id \in venues
                      /\ crawl_sessions'[old + i].order_in_crawl = i
                      /\ crawl_sessions'[old + i].is_current = (i = 1)
                /\ \A i, j \in 1..n :
                      i # j => crawl_sessions'[old + i].bar_id
                                 # crawl_sessions'[old + j].bar_id
                /\ crawl_groups'[g].status = ACTIVE]_vars

\* C19: group 1 is active with the five sessions of a start call made when
\* its area had six active bars.
C19_Witness ==
    /\ crawl_groups[1].status = ACTIVE
    /\ Cardinality(ActiveBars(crawl_groups[1].area)) = 6
    /\ Len(crawl_sessions) = 5
    /\ requests = EmptyBag

\* C20: once a group has been activated (it has session rows) no step adds a
\* session of that group, removes one, or changes the bar or the number of
\* one, whatever start, advance, end and sweep calls run and however they
\* interleave.
C20_VenueSequenceImmutable ==
    [][\A g \in 1..MaxGroups :
          (\E i \in 1..Len(crawl_sessions) : crawl_sessions[i].group_id = g)
          => /\ Len(crawl_sessions') >= Len(crawl_sessions)
             /\ \A i \in 1..Len(crawl_sessions') :
                   crawl_sessions'[i].group_id = g
                   => /\ i <= Len(crawl_sessions)
                      /\ crawl_sessions[i].group_id = g
                      /\ crawl_sessions'[i].bar_id = crawl_sessions[i].bar_id
                      /\ crawl_sessions'[i].order_in_crawl
                           = crawl_sessions[i].order_in_crawl
             /\ \A i \in 1..Len(crawl_sessions) :
                   crawl_sessions[i].group_id = g
                   => crawl_sessions'[i].group_id = g]_vars

\* ------------------------------------------------------------------------
\* Properties of the sweep, of sending and of registration
\* ------------------------------------------------------------------------

\* C21: an iteration of the daily sweep changes the row of no group that is
\* not active: a forming group stays forming, a completed group is not
\* touched.
C21_SweepEndsOnlyActive ==
    [][\A g \in 1..MaxGroups :
          (/\ g \in GroupIds
           /\ cleanup.running /\ cleanup.todo # <<>>
           /\ cleanup'.todo = Tail(cleanup.todo)
           /\ crawl_groups[g].status # ACTIVE)
          => crawl_groups'[g] = crawl_groups[g]]_vars

\* C22: a send, and likewise a progression step, is executed at most 3 times
\* in all, the first execution included, before it is given up.
C22_AtMostThreeAttempts ==
    \A i \in Deliveries : outgoing[i].attempts <= 3

\* C23: with a channel configured, send_whatsapp_message returns normally
\* only when the provider accepted the message (a 2xx answer); every other
\* answer makes it raise a retry.
C23_FailedSendRaisesRetry ==
    \A i \in Deliveries :
        (/\ channel # "none"
         /\ outgoing[i].name = "send_whatsapp_message"
         /\ outgoing[i].pc = "returned")
        => outgoing[i].answer \in {200, 201}

\* C24: when signup answers 400 to complete_user_registration, the call has
\* left the stored profile as it was, and the task then clears the
\* conversation state, dispatches find_group_task for the user once and
\* writes no profile.
C24_ConflictGoesToMatching ==
    [][\A t \in BagToSet(signup_tasks) :
          /\ (t.pc = "post" /\ Count(signup_tasks', [t EXCEPT !.pc = "answered_400"])
                                > Count(signup_tasks, [t EXCEPT !.pc = "answered_400"]))
                => user_preferences' = user_preferences
          /\ (t.pc = "answered_400" /\ signup_tasks' = Take(signup_tasks, t))
                => /\ user_preferences' = user_preferences
                   /\ user_state'[t.user] = NoState
                   /\ tasks' = Put(tasks, Task("find_group_task", t.user))]_vars

\* C24: a registration collecting only an area met a complete profile and
\* was answered 400: the profile is still the complete one, the state is
\* cleared, nothing was sent and find_group_task is queued once.
C24_Witness ==
    /\ signup_tasks = EmptyBag
    /\ user_preferences[1] = UserData(Data_all)
    /\ user_state[1] = NoState
    /\ outbox = NoResponse
    /\ Count(tasks, Task("find_group_task", 1)) = 1

\* C25: a signup request that ends while its number has a profile is
\* answered 400 and creates nothing, also when it ran concurrently with the
\* request that created the profile.
C25_DuplicateSignupAnswered400 ==
    [][\A t \in BagToSet(signup_tasks) :
          (/\ t.pc \in {"post", "commit"}
           /\ user_preferences[t.user] # NoRow
           /\ signup_tasks' = Put(Take(signup_tasks, t), [t EXCEPT !.pc = "answered_500"]))
          => FALSE]_vars

\* C26: a message that is exactly an option of the stage being collected,
\* in any letter case, is extracted as that option, and a message
\* containing no option of the stage extracts nothing.
C26_ExactOptionExtractsItself ==
    extraction.done =>
        LET options == Range(OptionsOf(extraction.stage))
        IN /\ \A o \in options :
                 Lower(extraction.message) = o => extraction.value = o
           /\ (\A o \in options : ~Contains(Lower(extraction.message), o))
                 => extraction.value = NoValue

\* C28: a request is answered 200 with the challenge exactly when the token
\* it supplies equals the configured one and 403 otherwise, and a request
\* supplying no token is answered 403 whatever is configured.
C28_ChallengeOnlyForMatchingToken ==
    verification.asked =>
        /\ verification.status = 200
              <=> (verification.token.present
                   /\ verification.token = verification.configured)
        /\ verification.status # 200 => verification.status = 403
        /\ ~verification.token.present => verification.status = 403

\* C27: once complete_user_registration has run for a sender, whatever its
\* outcome, no conversation state is stored for that sender.
C27_CompletedIsConsumed ==
    [][\A u \in Senders :
          LET t == SignupTask("complete_user_registration", "run", u, NoValue,
                              NoSnapshot)
          IN (BagIn(t, signup_tasks) /\ signup_tasks' = Take(signup_tasks, t))
                => user_state'[u] = NoState]_vars

C30_DuplicateThenCooldownThenAllow ==
    [][\A w \in Workers :
          workers'[w] # workers[w] =>
             /\ (workers[w].pc = "exists_message" /\ msg_dedupe[WorkerKey(w)] > 0)
                   => (workers'[w].pc = "done" /\ workers'[w].outcome = "ignored")
             /\ (workers[w].pc = "exists_message" /\ msg_dedupe[WorkerKey(w)] = 0)
                   => workers'[w].pc = "exists_cooldown"
             /\ workers'[w].pc = "exists_cooldown"
                   => (workers[w].pc = "exists_message" /\ msg_dedupe[WorkerKey(w)] = 0)
             /\ (workers[w].pc = "exists_cooldown" /\ user_cooldown[workers[w].from] > 0)
                   => (workers'[w].pc = "done" /\ workers'[w].outcome = "ignored")
             /\ (workers[w].pc = "exists_cooldown" /\ user_cooldown[workers[w].from] = 0)
                   => workers'[w].pc = "setex_message"
             /\ workers'[w].pc = "setex_message"
                   => (workers[w].pc = "exists_cooldown"
                       /\ user_cooldown[workers[w].from] = 0)]_vars

\* C30: a message whose text has no record stands at the cooldown check
\* while the marker of its sender is live and another text of the sender is
\* recorded: it is about to be denied by the cooldown alone.
C30_Witness ==
    \E w \in Workers :
        /\ workers[w].pc = "exists_cooldown"
        /\ msg_dedupe[WorkerKey(w)] = 0
        /\ user_cooldown[workers[w].from] > 0
        /\ \E k \in MessageKeys :
              k # WorkerKey(w) /\ k[1] = workers[w].from /\ msg_dedupe[k] > 0

\* C31: a message that is_duplicate_message denies, as a duplicate or for
\* the cooldown, leaves every record, every cooldown marker and every
\* message counter as it was, so nothing a denied message did keeps a later
\* message of the sender from being allowed.
C31_DeniedMessageWritesNothing ==
    [][\A w \in Workers :
          (/\ workers[w].pc \in {"exists_message", "exists_cooldown"}
           /\ workers'[w].pc = "done"
           /\ workers'[w].outcome = "ignored")
          => /\ msg_dedupe' = msg_dedupe
             /\ user_cooldown' = user_cooldown
             /\ msg_count' = msg_count]_vars

\* C31: one message was counted and another was denied; the cooldown of the
\* sender has run out since, and a text of the sender is without a record,
\* so that text is allowed when it is sent now.
C31_Witness ==
    /\ \E w \in Workers : workers[w].pc = "done" /\ workers[w].outcome = "ignored"
    /\ \E w \in Workers : workers[w].pc = "done" /\ workers[w].outcome = "processed"
    /\ counted[1] = 1
    /\ user_cooldown[1] = 0
    /\ \E k \in MessageKeys : k[1] = 1 /\ msg_dedupe[k] = 0
    /\ \E k \in MessageKeys : k[1] = 1 /\ msg_dedupe[k] > 0

\* C32: after clear_user_deduplication of a sender, no message record, no
\* cooldown marker and no message counter of that sender remains.
C32_ClearLeavesNothing ==
    [][\A u \in Senders :
          (msg_count[u] # NoKey /\ msg_count'[u] = NoKey)
          => /\ user_cooldown'[u] = 0
             /\ \A k \in MessageKeys : k[1] = u => msg_dedupe'[k] = 0]_vars

C34_OneCurrentSessionWhileActive ==
    \A g \in GroupIds :
        LET current == {i \in SessionIds(g) : crawl_sessions[i].is_current}
        IN IF crawl_groups[g].status = ACTIVE
           THEN Cardinality(current) = 1
           ELSE current = {}

\* C35: a user is a member of at most one forming or active group, also
\* when two find-group calls of the user run concurrently.
C35_OneGroupPerUser ==
    \A u \in Users :
        Cardinality({group_members[i].group_id : i \in
                       {j \in 1..Len(group_members) :
                          /\ group_members[j].user_preferences_id = u
                          /\ crawl_groups[group_members[j].group_id].status
                               \in {FORMING, ACTIVE}}}) <= 1

\* C36: for every group, current_members equals the number of membership
\* rows of the group, also after concurrent find-group calls.
C36_CountEqualsMemberRows ==
    \A g \in GroupIds : crawl_groups[g].current_members = Cardinality(MemberRows(g))

C38_StartOnlyByPendingMember ==
    [][\A r \in StartRequests :
          StartGroupCommit(r)
          => \E i \in MemberRows(r.group) :
                group_members[i].user_preferences_id = r.user]_vars

\* C39: once the group of a user is activated, completed or ended, a
\* find_group_task of the user schedules no further find_group_task and
\* creates no group.
C39_RecheckEndsWithGroup ==
    [][\A u \in Users :
          (/\ \E i \in 1..Len(group_members) :
                 group_members[i].user_preferences_id = u
           /\ \A i \in 1..Len(group_members) :
                 group_members[i].user_preferences_id = u
                 => crawl_groups[group_members[i].group_id].status # FORMING
           /\ \/ FindGroupRead(u)
              \/ \E r \in FindRequests : r.user = u /\ FindGroupCommit(r))
          => /\ ~BagIn(Task("find_group_task", u), tasks')
             /\ Len(crawl_groups') = Len(crawl_groups)]_vars

\* C40: a counter of a sender that exists carries an expiry of at most
\* rate_limit_window, or the worker that made its first increment is about
\* to set one: no counter is left that never expires.
C40_CounterAlwaysExpires ==
    \A u \in Senders :
        msg_count[u].n > 0
        => \/ msg_count[u].ttl \in 1..RATE_LIMIT_WINDOW
           \/ \E w \in Workers : workers[w].pc = "expire" /\ workers[w].from = u

====
